---- MODULE Spec2Model ----
(***************************************************************************)
(* A model of stim's connection subsystem.  The repository holds two       *)
(* variants of the same design, and both are modelled here, driven by the  *)
(* same document and the same host script:                                 *)
(*   - src/src/index.js   : class Stim (controllers, targets, deferred     *)
(*                          connects through queueMicrotask);              *)
(*   - src/Connector.js   : class Connector (aspects, element connections, *)
(*                          synchronous connects, two orphan indices).     *)
(* The document is a small fixed tree whose nodes the host script detaches *)
(* and re-attaches; mutation records are delivered the way the DOM does:   *)
(* batched, in a microtask, with transient observers on removed subtrees.  *)
(***************************************************************************)
EXTENDS Naturals, Sequences, FiniteSets, TLC

(***************************************************************************)
(* Bounds of the model.                                                    *)
(***************************************************************************)
\* the number of operations the host script performs in one behaviour
MaxOps == 4

(***************************************************************************)
(* The document.  root is document.documentElement; the other nodes are   *)
(* elements whose parent is fixed and who are attached to it or not.      *)
(*     root -+- o [controller K, id a] --- i [controller K] --- t [K.item] *)
(*           +- r [target K.item#a]                                        *)
(***************************************************************************)
Root == "root"
Els == {"o", "i", "t", "r"}
Nodes == Els \cup {Root}
\* document (pre)order of the elements
Order == <<"o", "i", "t", "r">>
Parent == [e \in Els |-> CASE e = "o" -> Root [] e = "i" -> "o" [] e = "t" -> "i" [] e = "r" -> Root]

\* an attribute: not present (getAttribute gives null), or its list of words
NoAttr == [has |-> FALSE, v |-> <<>>]
Attr(v) == [has |-> TRUE, v |-> v]
\* a property that holds a Map or a Set (m: its members, oldest first) or is undefined
Undefined == [def |-> FALSE, m |-> <<>>]
Defined(m) == [def |-> TRUE, m |-> m]
\* el.id, as the text of the id attribute ("" when there is none)
ElId == [e \in Nodes |-> IF e = "o" THEN <<"a">> ELSE <<>>]

\* the registered controller classes: K declares the target type item and
\* injects J; J declares nothing
Tokens == {"K", "J"}
DeclaredTargets == [k \in Tokens |-> IF k = "K" THEN {"item"} ELSE {}]
Injects == [k \in Tokens |-> IF k = "K" THEN <<"J">> ELSE <<>>]

\* a target descriptor is kept as its text cut at the separators . and #
LocalDesc == <<"K", ".", "item">>
RemoteDesc == <<"K", ".", "item", "#", "a">>
\* a descriptor of a type that K does not declare
OtherDesc == <<"K", ".", "other", "#", "a">>
Descs == {LocalDesc, RemoteDesc, OtherDesc}
\* the target attribute of each element: a list of descriptors, or NoAttr
TargetAttr == [e \in Nodes |-> CASE e = "t" -> Attr(<<LocalDesc>>) [] e = "r" -> Attr(<<RemoteDesc>>) [] OTHER -> NoAttr]
\* the classes the host script registers under a token: A and B are two classes
\* with the default shouldRegister(), B injects J; N's shouldRegister() returns false
Classes == {"A", "B", "N"}
ClassInjects == [cls \in Classes |-> IF cls = "B" THEN <<"J">> ELSE <<>>]
ShouldRegister == [cls \in Classes |-> cls # "N"]

\* the values the host script gives a controller attribute
CtrlVals == {NoAttr, Attr(<<"K">>), Attr(<<"J">>)}
\* the elements whose controller attribute the host script rewrites
CtrlEls == {"o"}

VARIABLES
    \* ---- the document and the host script
    attached,       \* attached[e]: e is a child of Parent[e]
    ctrlAttr,       \* ctrlAttr[e]: the controller attribute of e (a token list) or NoAttr
    observing,      \* connect() has been called and disconnect() has not
    transient,      \* the removed nodes that carry a transient registered observer
    recChild,       \* the pending childList mutation records
    recAttr,        \* the pending attribute mutation records
    mq,             \* the microtask queue
    running,        \* a microtask checkpoint is draining the queue
    ops,            \* the number of operations the host script has performed
    used,           \* history: the kinds of operation the host script has performed
    delivered,      \* history: the childList records of the last batch delivered
    deliveredAttr,  \* history: the attribute records of the last batch delivered, each with
                    \* the value the attribute had when the record was delivered
    moved,          \* history: the elements the host script has removed or appended
    registered,     \* the tokens registerController / the registry has been given a class for
    selRegistered,  \* a selector callback is registered, for a selector every element matches
    selAdds,        \* history: per element, how many times it was in the document at a
                    \* connect() or was added, alone or in a subtree, to an observed node
    \* ---- src/src/index.js, class Stim
    controllers,    \* #controllers: element -> token -> controller instance
    tobjs,          \* the ControllerTarget objects ever constructed
    targets,        \* #targets: element -> descriptor -> ControllerTarget (an index of tobjs, 0: none)
    orphans,        \* #orphans: host id -> set of ControllerTarget
    elc,            \* el.__stim_connected
    nextId,         \* the identity given to the next controller instance
    log,            \* per controller instance, the callbacks invoked on it
    sThrew,         \* the exceptions no handler of index.js caught
    sSel,           \* history: per element, the invocations of the selector callback by index.js
    \* ---- src/Connector.js, class Connector
    hostMap,        \* el.stim_tm_host: the aspects of el, oldest first, or Undefined
    aspects,        \* the Aspect objects ever constructed
    childMap,       \* el.stim_tm_child: the connections of el, or Undefined
    cOrphans,       \* orphans: element -> the host ids it waits for
    orphanHosts,    \* orphanHosts: host id -> element -> the descriptors waiting
    connectedAspects, \* connectedAspects
    scopeAttr,      \* the scope attribute of each element
    threw,          \* the exceptions no handler caught
    cSel,           \* history: per element, the invocations of the selector callback
                    \* by the Connector
    cObserving,     \* the observers of the Connector are registered: its connect() got
                    \* as far as observe(), and disconnect() has not been called since
    \* ---- an element with an action (index.js) and handler (Connector.js) attribute
    actEnv,         \* the element, its descriptor, and the instance its token resolves to
    aobjs,          \* the ControllerAction objects ever constructed
    actions,        \* #actions.get(el)[descriptor]: an index of aobjs, 0: none
    actq,           \* the microtasks of #connectInstance(action, ...)
    handlers,       \* el.stim_tm_handler and the listener of its ElementEventHandler
    actHist,        \* history: the events dispatched (heard: since the element was bound,
                    \* with a connected instance), what the listeners did
    \* ---- one declared property of a controller (PropSyncer) and of an aspect (AspectAttributeSyncer)
    propEnv,        \* the declared default, the injected override, and whether the element
                    \* is observed before the instance is constructed
    sprop,          \* index.js: the controller's _key, the element's attributes, the pending records
    cprop,          \* AspectAttributeSyncer.js: the aspect's #key, the element's attributes, the records
    propHist,       \* history: the number of operations, the last one, the value last written,
                    \* the attributes the element had when the instance was constructed (at),
                    \* and whether nothing but microtasks has run since then (clean)
    \* ---- the registers of controller classes (index.js) and of aspect classes (Registry)
    sReg,           \* #controllerRegister: token -> class, "none" when there is no entry
    sInj,           \* #injectTokens: token -> the prop tokens of the token
    sTok,           \* the static field token of each controller class
    cReg,           \* registry.aspectRegister: token -> class, "none" when there is no entry
    cTok,           \* the static field token of each aspect class
    regHist,        \* history: the registrations made, per token the class of the first
                    \* one, and the classes of the instances constructed since
    injects,        \* the static field injects of the class registered for each token
    targetAttr      \* targetAttr[e]: the target attribute of e (a descriptor list) or NoAttr

domVars == <<attached, ctrlAttr, observing, transient, recChild, recAttr, mq, running, ops, used, delivered, deliveredAttr, moved, registered, selRegistered, selAdds>>
stimVars == <<controllers, tobjs, targets, orphans, elc, nextId, log, sThrew, sSel>>
connVars == <<hostMap, aspects, childMap, cOrphans, orphanHosts, connectedAspects, scopeAttr, threw, cSel, cObserving>>
actVars == <<actEnv, aobjs, actions, actq, handlers, actHist>>
propVars == <<propEnv, sprop, cprop, propHist>>
regVars == <<sReg, sInj, sTok, cReg, cTok, regHist, injects, targetAttr>>
mainVars == <<domVars, stimVars, connVars>>
vars == <<mainVars, actVars, propVars, regVars>>

(***************************************************************************)
(* Helpers on sequences.                                                   *)
(***************************************************************************)
Range(s) == {s[n] : n \in DOMAIN s}

RECURSIVE FoldSeq(_, _, _)
\* Op(acc, x) applied to the members of seq, left to right
FoldSeq(Op(_, _), acc, seq) ==
    IF seq = <<>> THEN acc ELSE FoldSeq(Op, Op(acc, Head(seq)), Tail(seq))

\* seq without the repetitions of a member (what new Set(seq) iterates over)
Dedup(seq) ==
    LET Add(acc, x) == IF x \in Range(acc) THEN acc ELSE Append(acc, x)
    IN FoldSeq(Add, <<>>, seq)

\* the members of the set S of elements, in document order
InOrder(S) == SelectSeq(Order, LAMBDA e : e \in S)

\* seq without x
Without(seq, x) == SelectSeq(seq, LAMBDA y : y # x)

(***************************************************************************)
(* The DOM: tree queries.                                                  *)
(***************************************************************************)
RECURSIVE Ancestors(_)
\* e and its ancestors, nearest first (the chain closest() walks)
Ancestors(e) ==
    IF e = Root THEN <<Root>>
    ELSE IF attached[e] THEN <<e>> \o Ancestors(Parent[e]) ELSE <<e>>

\* node.isConnected
IsConnected(e) == Root \in Range(Ancestors(e))

\* the descendants of e, in document order (querySelectorAll's order)
Descendants(e) == SelectSeq(Order, LAMBDA d : d # e /\ e \in Range(Ancestors(d)))

\* el.hasAttribute(controller attribute), el.hasAttribute(target attribute)
HasCtrl(e) == e # Root /\ ctrlAttr[e].has
HasTarget(e) == targetAttr[e].has

\* document.getElementById(id): the first element of the document with that id
GetElementById(id) ==
    LET hit == SelectSeq(Order, LAMBDA e : ElId[e] = id /\ id # <<>> /\ IsConnected(e))
    IN IF hit = <<>> THEN "null" ELSE Head(hit)

\* el.closest(sel): the nearest of el and its ancestors that is among the
\* elements matching sel
Closest(e, matching) ==
    LET hit == SelectSeq(Ancestors(e), LAMBDA a : a \in matching)
    IN IF hit = <<>> THEN "null" ELSE Head(hit)

(***************************************************************************)
(* Descriptors: "token.type" or "token.type#hostId".                       *)
(***************************************************************************)
IsSep(x) == x \in {".", "#"}

\* descriptor.split(/[.#]/): the texts between the separators
SplitDesc(d) ==
    LET Step(acc, x) ==
            IF IsSep(x) THEN Append(acc, "")
            ELSE [acc EXCEPT ![Len(acc)] = x]
    IN FoldSeq(Step, <<"">>, d)

\* descriptor.slice(descriptor.lastIndexOf('#') + 1) when it has a #, else ''
HostIdOf(d) ==
    LET hashes == {n \in DOMAIN d : d[n] = "#"}
    IN IF hashes = {} THEN <<>>
       ELSE LET last == CHOOSE n \in hashes : \A m \in hashes : m <= n
            IN SubSeq(d, last + 1, Len(d))

(***************************************************************************)
(* src/src/index.js, class Stim.  The handlers are functions of the Stim    *)
(* state s, a record of                                                    *)
(*   c    #controllers        tb   the ControllerTarget objects            *)
(*   tm   #targets            orp  #orphans                                *)
(*   elc  __stim_connected    mq   the microtask queue                     *)
(*   nid  the next identity   log  the callbacks invoked                   *)
(***************************************************************************)
StimState ==
    [c |-> controllers, tb |-> tobjs, tm |-> targets, orp |-> orphans,
     elc |-> elc, mq |-> mq, nid |-> nextId, log |-> log,
     err |-> FALSE, threw |-> sThrew, sel |-> sSel]

\* a TypeError is thrown in index.js; a handler reached while it propagates does nothing
StimThrow(s) == [s EXCEPT !.err = TRUE]

\* the exception leaves the callback or the call of the host script uncaught
StimUncaught(s) == IF s.err THEN [s EXCEPT !.err = FALSE, !.threw = @ + 1] ELSE s

\* the host ids a descriptor can name
HostIds == {HostIdOf(d) : d \in Descs} \ {<<>>}

\* #controllers.get(el)[token] before the instance is made
NoController(k) ==
    [exists |-> FALSE, id |-> 0, propToken |-> <<>>, connected |-> FALSE,
     connecting |-> FALSE, targets |-> [ty \in DeclaredTargets[k] |-> {}]]

\* a microtask
Task(k, el, token, t) == [k |-> k, el |-> el, token |-> token, t |-> t]
NotifyTask == Task("notify", "null", "", 0)

\* a callback invoked on the controller at (el, k): what was called, with which
\* element, and what the callback sees of the controller while it runs (peers:
\* the other controllers of the same element that are marked connected; held: the
\* hosts of other controllers of the same token that have the element as a target)
Logged(s, el, k, ev, arg) ==
    [s EXCEPT !.log[el][k] = Append(@,
        [ev |-> ev, el |-> arg, conn |-> s.c[el][k].connected,
         members |-> UNION {s.c[el][k].targets[ty] : ty \in DeclaredTargets[k]},
         peers |-> {k2 \in Tokens \ {k} : s.c[el][k2].connected},
         held |-> {e \in Els \ {el} :
                    arg \in UNION {s.c[e][k].targets[ty] : ty \in DeclaredTargets[k]}}])]

\* the ControllerTarget of el whose descriptor was cut into parts
TargetOfParts(el, d, parts) ==
    [el |-> el, descriptor |-> d,
     token |-> parts[1],
     type |-> IF Len(parts) >= 2 THEN parts[2] ELSE "undefined",
     hostId |-> HostIdOf(d),
     controller |-> "undefined", connected |-> FALSE, connecting |-> FALSE]

\* new ControllerTarget(el, descriptor)
ControllerTarget(el, d) == TargetOfParts(el, d, SplitDesc(d))

\* #injectTokens[token]: the token, then injected/token for each token it injects
InjectTokens(k) ==
    IF k \in registered
    THEN <<<<k>>>> \o [n \in DOMAIN injects[k] |-> <<injects[k][n], "/", k>>]
    ELSE <<>>

\* #addOrphan
AddOrphan(s, t) ==
    LET h == s.tb[t].hostId
    IN IF h # <<>> /\ t \notin Range(s.orp[h])
       THEN [s EXCEPT !.orp[h] = Append(@, t)]
       ELSE s

\* #removeOrphan
RemoveOrphan(s, t) ==
    LET h == s.tb[t].hostId
    IN IF h # <<>> THEN [s EXCEPT !.orp[h] = Without(@, t)] ELSE s

\* #addTarget: #connectInstance(target, ...), whose callback is ConnectTarget
AddTarget(s, t) ==
    [s EXCEPT !.tb[t].connecting = TRUE,
              !.mq = Append(@, Task("connTgt", "null", "", t))]

\* #addTarget(new ControllerTarget(el, d))
AddNewTarget(s, el, d) ==
    AddTarget([s EXCEPT !.tb = Append(@, ControllerTarget(el, d))], Len(s.tb) + 1)

\* HostOfTarget that falls back to the nearest host when no element has the id
HostOfTargetFallback(o) ==
    IF o.hostId # <<>> /\ GetElementById(o.hostId) # "null" THEN GetElementById(o.hostId)
    ELSE Closest(o.el, {e \in Nodes : HasCtrl(e)})

\* HostOfTarget with the lookup walking to the outermost host instead of the nearest
HostOfTargetOutermost(o) ==
    LET hit == SelectSeq(Ancestors(o.el), HasCtrl)
    IN IF o.hostId # <<>> THEN GetElementById(o.hostId)
       ELSE IF hit = <<>> THEN "null" ELSE hit[Len(hit)]

\* the host element of a target: the element with the id the descriptor names,
\* or the nearest of the target and its ancestors with a controller attribute
HostOfTarget(o) ==
    IF o.hostId # <<>> THEN GetElementById(o.hostId) ELSE Closest(o.el, {e \in Nodes : HasCtrl(e)})

\* the callback of #addTarget once the host element is looked up
TargetCallback(s, t, host) ==
    LET o == s.tb[t]
        found == host # "null" /\ o.token \in Tokens /\ s.c[host][o.token].exists
        s1 == [s EXCEPT !.tb[t].connecting = FALSE,
                        !.tb[t].controller = IF found THEN host ELSE "undefined"]
    IN IF ~(found /\ s.c[host][o.token].connected)
       THEN [AddOrphan(s1, t) EXCEPT !.tb[t].connected = FALSE]
       ELSE IF o.type \notin DeclaredTargets[o.token]
       THEN StimThrow([RemoveOrphan(s1, t) EXCEPT !.tm[o.el][o.descriptor] = t])
       ELSE [Logged([RemoveOrphan(s1, t) EXCEPT
                        !.tm[o.el][o.descriptor] = t,
                        !.c[host][o.token].targets[o.type] = @ \cup {o.el}],
                    host, o.token, "targetConnected", o.el)
                EXCEPT !.tb[t].connected = TRUE]

\* the microtask of #connectInstance(target, callback of #addTarget)
ConnectTarget(s, t) ==
    IF s.tb[t].connected \/ ~s.tb[t].connecting THEN s
    ELSE TargetCallback(s, t, HostOfTarget(s.tb[t]))

\* RemoveTarget that forgets the eviction: the element stays in the target set and
\* no callback is invoked
RemoveTargetKeepsMember(s, t, addOrphan) ==
    [s EXCEPT !.tb[t].connecting = FALSE]

\* #removeTarget(target, addOrphan) for a ControllerTarget
RemoveTarget(s, t, addOrphan) ==
    LET o == s.tb[t]
        s1 == [s EXCEPT !.tb[t].connecting = FALSE]
        s2 == [s1 EXCEPT !.tb[t].connected = FALSE]
    IN IF ~o.connected THEN s1
       ELSE Logged([(IF addOrphan THEN AddOrphan(s2, t) ELSE RemoveOrphan(s2, t)) EXCEPT
                        !.c[o.controller][o.token].targets[o.type] = @ \ {o.el}],
                   o.controller, o.token, "targetDisconnected", o.el)

\* #removeTarget(el, true) as #removeController calls it: $targets holds the
\* target ELEMENTS, an element has no $connected, so #disconnectInstance
\* returns at its guard and nothing is evicted
RemoveTargetOfElement(s, el, addOrphan) == s

\* #removeController
RemoveController(s, el, k) ==
    LET c == s.c[el][k]
        s1 == [s EXCEPT !.c[el][k].connecting = FALSE]
        s2 == [s1 EXCEPT !.c[el][k].connected = FALSE]
        members == InOrder(UNION {c.targets[ty] : ty \in DeclaredTargets[k]})
    IN IF s.err THEN s
       ELSE IF ~c.connected THEN s1
       ELSE FoldSeq(LAMBDA acc, m : RemoveTargetOfElement(acc, m, TRUE),
                    Logged(s2, el, k, "disconnected", el), members)

\* InstanceFor without the lookup: every add constructs an instance
InstanceForAlwaysNew(s, el, propToken) ==
    LET k == propToken[1]
    IN Logged([s EXCEPT !.c[el][k] = [NoController(k) EXCEPT
                             !.exists = TRUE, !.id = s.nid, !.propToken = propToken],
                          !.nid = @ + 1],
              el, k, "initialized", el)

\* InstanceFor keeping an instance only while it is connected: a host that comes
\* back gets a new one
InstanceForNewOnReconnect(s, el, propToken) ==
    LET k == propToken[1]
    IN IF s.c[el][k].exists /\ s.c[el][k].connected THEN s
       ELSE InstanceForAlwaysNew(s, el, propToken)

\* the instance #addController finds or makes
InstanceFor(s, el, propToken) ==
    LET k == propToken[1]
    IN IF s.c[el][k].exists THEN s
       ELSE Logged([s EXCEPT !.c[el][k] = [NoController(k) EXCEPT
                                !.exists = TRUE, !.id = s.nid, !.propToken = propToken],
                             !.nid = @ + 1],
                   el, k, "initialized", el)

\* #addController: the instance, then #connectInstance(controller, ...), whose
\* callback is ConnectController
AddController(s, el, propToken) ==
    IF s.err THEN s
    ELSE IF ~s.c[el][propToken[1]].exists /\ propToken[1] \notin registered THEN StimThrow(s)
    ELSE [InstanceFor(s, el, propToken) EXCEPT
            !.c[el][propToken[1]].connecting = TRUE,
            !.mq = Append(@, Task("connCtl", el, propToken[1], 0))]

\* the callback of #addController after controller.connected(): the orphans that
\* wait for el's id and name the token are added again
AddOrphansOf(s, el, k) ==
    FoldSeq(LAMBDA acc, t : IF acc.tb[t].token = k THEN AddTarget(acc, t) ELSE acc,
            s, IF ElId[el] # <<>> /\ ElId[el] \in HostIds THEN s.orp[ElId[el]] ELSE <<>>)

\* ConnectController without the look into #orphans
ConnectControllerNoOrphans(s, el, k) ==
    IF s.c[el][k].connected \/ ~s.c[el][k].connecting THEN s
    ELSE [Logged([s EXCEPT !.c[el][k].connecting = FALSE], el, k, "connected", el)
             EXCEPT !.c[el][k].connected = TRUE]

\* the microtask of #connectInstance(controller, callback of #addController)
ConnectController(s, el, k) ==
    IF s.c[el][k].connected \/ ~s.c[el][k].connecting THEN s
    ELSE [AddOrphansOf(Logged([s EXCEPT !.c[el][k].connecting = FALSE],
                              el, k, "connected", el), el, k)
             EXCEPT !.c[el][k].connected = TRUE]

\* the tokens that have an instance on el, oldest first (Object.keys)
KeysOf(s, el) ==
    LET has == {k \in Tokens : s.c[el][k].exists}
        RECURSIVE Sorted(_)
        Sorted(S) == IF S = {} THEN <<>>
                     ELSE LET m == CHOOSE k \in S : \A j \in S : s.c[el][k].id <= s.c[el][j].id
                          IN <<m>> \o Sorted(S \ {m})
    IN Sorted(has)

\* the prop tokens #setControllers adds for the attribute's token list
AddTokens(listed) ==
    Dedup(FoldSeq(LAMBDA acc, k : acc \o InjectTokens(k), <<>>, listed))

\* the tokens #setControllers removes: the keys no added prop token names
RemoveTokens(keys, addTokens) ==
    SelectSeq(keys, LAMBDA k : \A n \in DOMAIN addTokens : addTokens[n][1] # k)

\* #setControllers(el, tokens): tokens is the attribute's token list, or NoAttr
SetControllers(s, el, tokens) ==
    FoldSeq(LAMBDA acc, k : RemoveController(acc, el, k),
            FoldSeq(LAMBDA acc, pt : AddController(acc, el, pt), s, AddTokens(tokens.v)),
            RemoveTokens(KeysOf(s, el), AddTokens(tokens.v)))

\* the descriptors #targets has for el, oldest first
TargetKeys(s, el) ==
    LET has == {d \in Descs : s.tm[el][d] # 0}
        RECURSIVE Sorted(_)
        Sorted(S) == IF S = {} THEN <<>>
                     ELSE LET m == CHOOSE d \in S : \A x \in S : s.tm[el][d] <= s.tm[el][x]
                          IN <<m>> \o Sorted(S \ {m})
    IN Sorted(has)

\* #setTargets(el, descriptors): descriptors is the attribute's list, or NoAttr
SetTargets(s, el, descriptors) ==
    IF s.err THEN s
    ELSE FoldSeq(LAMBDA acc, d : IF acc.tm[el][d] # 0 THEN AddTarget(acc, acc.tm[el][d])
                                 ELSE AddNewTarget(acc, el, d),
                 FoldSeq(LAMBDA acc, d : RemoveTarget(acc, acc.tm[el][d], FALSE), s,
                         SelectSeq(TargetKeys(s, el), LAMBDA d : d \notin Range(descriptors.v))),
                 Dedup(descriptors.v))

\* TakenEls that looks at rootEl alone, not at its descendants
TakenElsRootOnly(s, rootEl, disconnect) ==
    SelectSeq(<<rootEl>>, LAMBDA e : disconnect = s.elc[e])

\* the elements #updateSubtreeConnections takes: rootEl and the descendants with
\* a controller or a target attribute whose __stim_connected differs from the aim
TakenEls(s, rootEl, disconnect) ==
    SelectSeq(<<rootEl>> \o SelectSeq(Descendants(rootEl), LAMBDA e : HasCtrl(e) \/ HasTarget(e)),
              LAMBDA e : disconnect = s.elc[e])

\* UpdateSubtreeConnections that never clears __stim_connected
UpdateSubtreeConnectionsStaleFlag(s, rootEl, disconnect) ==
    FoldSeq(LAMBDA acc, e : SetTargets(acc, e, IF disconnect THEN NoAttr ELSE targetAttr[e]),
            FoldSeq(LAMBDA acc, e : SetControllers(acc, e, IF disconnect THEN NoAttr ELSE ctrlAttr[e]),
                    [s EXCEPT !.elc = [e \in Nodes |->
                        IF e \in Range(TakenEls(s, rootEl, disconnect)) THEN TRUE ELSE @[e]]],
                    SelectSeq(TakenEls(s, rootEl, disconnect), HasCtrl)),
            SelectSeq(TakenEls(s, rootEl, disconnect), HasTarget))

\* #updateSubtreeConnections(rootEl, disconnect); actions are not modelled
UpdateSubtreeConnections(s, rootEl, disconnect) ==
    IF s.err THEN s
    ELSE
    FoldSeq(LAMBDA acc, e : SetTargets(acc, e, IF disconnect THEN NoAttr ELSE targetAttr[e]),
            FoldSeq(LAMBDA acc, e : SetControllers(acc, e, IF disconnect THEN NoAttr ELSE ctrlAttr[e]),
                    [s EXCEPT !.elc = [e \in Nodes |->
                        IF e \in Range(TakenEls(s, rootEl, disconnect)) THEN ~disconnect ELSE @[e]]],
                    SelectSeq(TakenEls(s, rootEl, disconnect), HasCtrl)),
            SelectSeq(TakenEls(s, rootEl, disconnect), HasTarget))

\* connectElement, its first loop: the registered selector callback is invoked for
\* el and for each of its descendants (every element matches the selector)
SelectorCallbacks(s, el) ==
    IF ~selRegistered THEN s
    ELSE [s EXCEPT !.sel = [d \in Els |-> IF el \in Range(Ancestors(d)) THEN @[d] + 1 ELSE @[d]]]

\* connectElement(el)
ConnectElement(s, el) ==
    IF s.err THEN s ELSE UpdateSubtreeConnections(SelectorCallbacks(s, el), el, FALSE)

\* disconnectElement(el)
DisconnectElement(s, el) == UpdateSubtreeConnections(s, el, TRUE)

\* the callback of #observer.childList that connects the added nodes of the whole
\* batch before it disconnects the removed ones
ChildListObserverAddedFirst(s, records) ==
    FoldSeq(LAMBDA acc, rec : IF rec.removed THEN DisconnectElement(acc, rec.node)
                              ELSE ConnectElement(acc, rec.node), s,
            SelectSeq(records, LAMBDA rec : ~rec.removed) \o SelectSeq(records, LAMBDA rec : rec.removed))

\* the callback of #observer.childList
ChildListObserver(s, records) ==
    FoldSeq(LAMBDA acc, rec : IF rec.removed THEN DisconnectElement(acc, rec.node)
                              ELSE ConnectElement(acc, rec.node), s, records)

\* #observer.attribute, for one record of the controller attribute of el: the
\* targets below el are reset and set again in a microtask, then #setControllers
ControllerAttributeChanged(s, el) ==
    IF s.err THEN s
    ELSE
    SetControllers(
        FoldSeq(LAMBDA acc, e : [SetTargets(acc, e, NoAttr) EXCEPT
                                    !.mq = Append(@, Task("setTargets", e, "", 0))],
                s, SelectSeq(Descendants(el), HasTarget)),
        el, ctrlAttr[el])

\* #observer.attribute, for one record of the target attribute of el
TargetAttributeChanged(s, el) == SetTargets(s, el, targetAttr[el])

\* the callback of #observer.attribute, for records of the controller attribute
\* and of the target attribute
AttributeObserver(s, records) ==
    FoldSeq(LAMBDA acc, rec : IF rec.name = "controller"
                              THEN ControllerAttributeChanged(acc, rec.el)
                              ELSE TargetAttributeChanged(acc, rec.el), s, records)

(***************************************************************************)
(* src/Connector.js, class Connector, with src/Aspect.js and               *)
(* src/src/ElementConnection.js.  The handlers are functions of the        *)
(* Connector state c, a record of                                          *)
(*   hm    el.stim_tm_host     asp   the Aspect objects ever constructed   *)
(*   ch    el.stim_tm_child    orp   orphans        oh   orphanHosts       *)
(*   ca    connectedAspects    scope the scope attribute of each element   *)
(*   err   an exception is propagating      threw  the uncaught exceptions *)
(* A handler reached while an exception propagates does nothing.           *)
(***************************************************************************)
ConnState ==
    [hm |-> hostMap, asp |-> aspects, ch |-> childMap, orp |-> cOrphans,
     oh |-> orphanHosts, ca |-> connectedAspects, scope |-> scopeAttr,
     err |-> FALSE, threw |-> threw, sel |-> cSel]

\* a TypeError is thrown
Throw(c) == [c EXCEPT !.err = TRUE]

\* the host ids a descriptor can name, as split(/[.#]/) gives them
HostIdTexts == {SplitDesc(d)[3] : d \in {x \in Descs : Len(SplitDesc(x)) >= 3}}

\* a host id of a connection that is not falsy
IsHostId(h) == h \notin {"", "undefined"}

\* el.getAttribute(connect attribute): the connect attribute holds the tokens
\* the element hosts and the descriptors it is a target of
ConnectAttrOf(ctrl, tgt) ==
    IF ~ctrl.has /\ ~tgt.has THEN NoAttr
    ELSE Attr([n \in DOMAIN ctrl.v |-> <<ctrl.v[n]>>] \o tgt.v)
ConnectAttr(e) == IF e = Root THEN NoAttr ELSE ConnectAttrOf(ctrlAttr[e], targetAttr[e])
HasConnect(e) == ConnectAttr(e).has

\* filterHostTokens, filterChildTokens
FilterHostTokens(ids) == SelectSeq(ids, LAMBDA id : id # <<>> /\ "." \notin Range(id))
FilterChildTokens(ids) == SelectSeq(ids, LAMBDA id : "." \in Range(id))

\* id.includes(`${token}.`)
IncludesTokenDot(id, k) == \E n \in DOMAIN id : n < Len(id) /\ id[n] = k /\ id[n + 1] = "."

\* getConnectEls(el)
GetConnectEls(e) == SelectSeq(Descendants(e), HasConnect)

\* el.stim_tm_host.get(token): the Aspect (an index of asp), 0 for undefined
HostGet(c, el, k) ==
    IF el \notin Els THEN 0
    ELSE LET hit == SelectSeq(c.hm[el].m, LAMBDA a : c.asp[a].token = k)
         IN IF hit = <<>> THEN 0 ELSE Head(hit)

\* el.stim_tm_child.get(descriptor): its place in the map, 0 for undefined
ChildGet(c, el, d) ==
    LET hit == {n \in DOMAIN c.ch[el].m : c.ch[el].m[n].descriptor = d}
    IN IF hit = {} THEN 0 ELSE CHOOSE n \in hit : TRUE

\* a callback invoked on the aspect a, and what it sees of the aspect
CLogged(c, a, ev, arg) ==
    [c EXCEPT !.asp[a].log = Append(@,
        [ev |-> ev, el |-> arg, conn |-> c.asp[a].isConnected,
         members |-> UNION {c.asp[a].elements[ty] : ty \in DOMAIN c.asp[a].elements},
         peers |-> {c.asp[b].token : b \in {x \in DOMAIN c.asp \ {a} :
                        c.asp[x].el = c.asp[a].el /\ c.asp[x].isConnected}},
         held |-> {c.asp[b].el : b \in {x \in DOMAIN c.asp \ {a} :
                        /\ c.asp[x].token = c.asp[a].token
                        /\ arg \in UNION {c.asp[x].elements[ty] : ty \in DOMAIN c.asp[x].elements}}}])]

\* the scope attribute's text for the tokens of el.stim_tm_host: " K J "
ScopeString(c, el) ==
    FoldSeq(LAMBDA acc, a : acc \o <<c.asp[a].token, " ">>, <<" ">>, c.hm[el].m)

\* [scope*=" token "]
ScopeMatches(c, e, k) ==
    /\ e # Root /\ c.scope[e].has
    /\ \E n \in DOMAIN c.scope[e].v : n + 2 <= Len(c.scope[e].v)
            /\ c.scope[e].v[n] = " " /\ c.scope[e].v[n + 1] = k /\ c.scope[e].v[n + 2] = " "

\* setHostScopeAttribute that writes the attribute once and never recomputes it
SetHostScopeAttributeOnce(c, el) ==
    IF c.err THEN c
    ELSE IF ~c.hm[el].def THEN Throw(c)
    ELSE IF c.scope[el].has THEN c
    ELSE [c EXCEPT !.scope[el] = Attr(ScopeString(c, el))]

\* setHostScopeAttribute(el)
SetHostScopeAttribute(c, el) ==
    IF c.err THEN c
    ELSE IF ~c.hm[el].def THEN Throw(c)
    ELSE [c EXCEPT !.scope[el] = Attr(ScopeString(c, el))]

\* addOrphan(el, hostId, token)
CAddOrphan(c, el, h, d) ==
    IF c.err THEN c
    ELSE LET m0 == c.oh[h].m
             m1 == IF \E n \in DOMAIN m0 : m0[n].el = el THEN m0
                   ELSE Append(m0, [el |-> el, tokens |-> <<>>])
             m2 == [n \in DOMAIN m1 |->
                        IF m1[n].el = el /\ d \notin Range(m1[n].tokens)
                        THEN [m1[n] EXCEPT !.tokens = Append(@, d)] ELSE m1[n]]
             o0 == c.orp[el].m
             o1 == IF h \in Range(o0) THEN o0 ELSE Append(o0, h)
         IN [c EXCEPT !.oh[h] = Defined(m2), !.orp[el] = Defined(o1)]

\* removeOrphan(el), the body of the loop for one host id the element waits for
RemoveOrphanHost(c, el, h) ==
    IF c.err THEN c
    ELSE IF ~c.oh[h].def THEN Throw(c)
    ELSE LET m == SelectSeq(c.oh[h].m, LAMBDA x : x.el # el)
         IN [c EXCEPT !.oh[h] = IF m = <<>> THEN Undefined ELSE Defined(m)]

\* removeOrphan(el), after the loop: orphans.delete(el)
OrphanDelete(c, el) ==
    IF c.err THEN c ELSE [c EXCEPT !.orp[el] = Undefined]

\* removeOrphan(el): every host id the element waits for
RemoveOrphanOfEl(c, el) ==
    IF c.err THEN c
    ELSE OrphanDelete(FoldSeq(LAMBDA acc, h : RemoveOrphanHost(acc, el, h), c, c.orp[el].m), el)

\* removeOrphan(el, hostId, token), hostId and token not empty
RemoveOrphanToken(c, el, h, d) ==
    LET m0 == c.oh[h].m
        at == {n \in DOMAIN m0 : m0[n].el = el}
        m1 == [n \in DOMAIN m0 |->
                    IF m0[n].el = el THEN [m0[n] EXCEPT !.tokens = Without(@, d)] ELSE m0[n]]
        emptied == \E n \in at : m1[n].tokens = <<>>
        m2 == IF emptied THEN SelectSeq(m1, LAMBDA x : x.el # el) ELSE m1
        c1 == [c EXCEPT !.oh[h] = IF m2 = <<>> THEN Undefined ELSE Defined(m2)]
        o1 == Without(c.orp[el].m, h)
    IN IF c.err THEN c
       ELSE IF ~c.oh[h].def THEN c
       ELSE IF at = {} THEN Throw(c)
       ELSE IF ~c.orp[el].def THEN Throw(c1)
       ELSE [c1 EXCEPT !.orp[el] = IF o1 = <<>> THEN Undefined ELSE Defined(o1)]

\* the element of the aspect a connection looks for: the element with the host
\* id, or the nearest of el and its ancestors whose scope names the token
AspectElOf(c, el, hostId, aspectToken) ==
    IF IsHostId(hostId) THEN GetElementById(<<hostId>>)
    ELSE Closest(el, {e \in Nodes : ScopeMatches(c, e, aspectToken)})

\* the ElementConnection of el whose descriptor was cut into parts
ConnectionOfParts(c, el, d, parts) ==
    LET aspectToken == parts[1]
        type == IF Len(parts) >= 2 THEN parts[2] ELSE "undefined"
        hostId == IF Len(parts) >= 3 THEN parts[3] ELSE "undefined"
        valid == type \notin {"", "undefined"} /\ aspectToken # ""
    IN [el |-> el, descriptor |-> d, valid |-> valid,
        type |-> IF valid THEN type ELSE "undefined",
        hostId |-> IF valid THEN hostId ELSE "undefined",
        aspectToken |-> IF valid THEN aspectToken ELSE "undefined",
        aspect |-> IF valid
                   THEN HostGet(c, AspectElOf(c, el, hostId, aspectToken), aspectToken)
                   ELSE 0,
        connected |-> FALSE]

\* new ElementConnection(el, descriptor), before it is registered
ElementConnection(c, el, d) == ConnectionOfParts(c, el, d, SplitDesc(d))

\* el.stim_tm_child.set(descriptor, connection), at the end of the constructor
RegisterConnection(c, conn) ==
    LET el == conn.el
        m0 == c.ch[el].m
        at == {n \in DOMAIN m0 : m0[n].descriptor = conn.descriptor}
    IN [c EXCEPT !.ch[el] = Defined(IF at = {} THEN Append(m0, conn)
                            ELSE [n \in DOMAIN m0 |-> IF n \in at THEN conn ELSE m0[n]])]

\* ElementConnection.connect(), for the connection el has for descriptor d
ConnectionConnect(c, el, d) ==
    LET n == ChildGet(c, el, d)
        conn == c.ch[el].m[n]
        a == conn.aspect
        c1 == IF conn.type \in DOMAIN c.asp[a].elements
              THEN [c EXCEPT !.asp[a].elements[conn.type] = @ \cup {el}] ELSE c
    IN IF c.err THEN c
       ELSE IF conn.connected \/ a = 0 THEN c
       ELSE [CLogged(c1, a, "targetConnected", el) EXCEPT !.ch[el].m[n].connected = TRUE]

\* ElementConnection.disconnect(), for the connection at place n of el's map
ConnectionDisconnect(c, el, n) ==
    LET conn == c.ch[el].m[n]
        a == conn.aspect
        c1 == IF conn.type \in DOMAIN c.asp[a].elements
              THEN [c EXCEPT !.asp[a].elements[conn.type] = @ \ {el}] ELSE c
    IN IF c.err THEN c
       ELSE IF ~conn.connected \/ a = 0 THEN c
       ELSE [CLogged(c1, a, "targetDisconnected", el) EXCEPT !.ch[el].m[n].connected = FALSE]

\* el.stim_tm_child.delete(descriptor)
ChildDelete(c, el, d) ==
    IF c.err \/ ~c.ch[el].def THEN c
    ELSE [c EXCEPT !.ch[el].m = SelectSeq(@, LAMBDA x : x.descriptor # d)]

\* childTokensAdded that leaves a connected connection of the element in place
DisconnectOldNever(c, el, d) == c

\* childTokensAdded, for one token: a connected connection the element has for
\* the token already is disconnected
DisconnectOld(c, el, d) ==
    LET old == ChildGet(c, el, d)
    IN IF old # 0 /\ c.ch[el].m[old].connected THEN ConnectionDisconnect(c, el, old) ELSE c

\* childTokensAdded, for one token: the new connection conn waits as an orphan
\* or connects; one that is not valid was not registered
ConnectOrOrphan(c, conn) ==
    IF ~conn.valid THEN c
    ELSE IF conn.aspect = 0 /\ IsHostId(conn.hostId)
    THEN CAddOrphan(RegisterConnection(c, conn), conn.el, conn.hostId, conn.descriptor)
    ELSE ConnectionConnect(RegisterConnection(c, conn), conn.el, conn.descriptor)

\* childTokensAdded, for one token, from new ElementConnection(el, token) on
NewConnection(c, el, d) == ConnectOrOrphan(c, ElementConnection(c, el, d))

\* childTokensAdded, the body of the loop for one token
ChildTokenAdded(c, el, d) ==
    IF c.err THEN c ELSE NewConnection(DisconnectOld(c, el, d), el, d)

\* childTokensAdded(el, tokens)
ChildTokensAdded(c, el, tokens) ==
    FoldSeq(LAMBDA acc, d : ChildTokenAdded(acc, el, d), c, tokens)

\* childTokensRemoved, for one token: if (connection.hostId) removeOrphan(...)
RemoveOrphanIfHostId(c, el, h, d) ==
    IF IsHostId(h) THEN RemoveOrphanToken(c, el, h, d) ELSE c

\* childTokensRemoved, for one token whose connection is at place n of el's map
\* (0: there is none, and connection.hostId throws)
ConnectionRemoved(c, el, d, n) ==
    IF n = 0 THEN Throw(ChildDelete(c, el, d))
    ELSE RemoveOrphanIfHostId(ChildDelete(ConnectionDisconnect(c, el, n), el, d),
                              el, c.ch[el].m[n].hostId, d)

\* childTokensRemoved, the body of the loop for one token
ChildTokenRemoved(c, el, d) ==
    IF c.err THEN c ELSE ConnectionRemoved(c, el, d, ChildGet(c, el, d))

\* childTokensRemoved(el, tokens)
ChildTokensRemoved(c, el, tokens) ==
    FoldSeq(LAMBDA acc, d : ChildTokenRemoved(acc, el, d), c, tokens)

\* childElAdded(el)
ChildElAdded(c, el) ==
    ChildTokensAdded(c, el, FilterChildTokens(ConnectAttr(el).v))

\* childElRemoved(el)
ChildElRemoved(c, el) ==
    IF c.err THEN c
    ELSE RemoveOrphanOfEl(
            FoldSeq(LAMBDA acc, n : ConnectionDisconnect(acc, el, n), c,
                    [n \in DOMAIN c.ch[el].m |-> n]), el)

\* new Aspect(host, stim): the constructor of src/Aspect.js
NewAspect(c, el, k) ==
    CLogged([c EXCEPT !.asp = Append(@,
                [el |-> el, token |-> k, isConnected |-> FALSE,
                 elements |-> [ty \in DeclaredTargets[k] |-> {}], log |-> <<>>]),
                      !.hm[el] = Defined(Append(@.m, Len(c.asp) + 1))],
            Len(c.asp) + 1, "initialized", el)

\* injectAspect, its last statement: the aspect is constructed unless the calls
\* for the injected tokens threw
ConstructAspect(c, el, k) == IF c.err THEN c ELSE NewAspect(c, el, k)

RECURSIVE InjectAspectWithin(_, _, _, _)
\* injectAspect(el, token), called while the calls for the tokens of pending are on
\* the stack.  A token is entered into el.stim_tm_host by its constructor, after
\* the calls for the tokens it injects have returned: a call for a token that is
\* on the stack finds the state of the earlier call again, so the recursion never
\* returns and ends in a RangeError (the call stack is exhausted)
InjectAspectWithin(c, el, k, pending) ==
    IF c.err THEN c
    ELSE IF k \notin registered THEN c
    ELSE IF HostGet(c, el, k) # 0 THEN c
    ELSE IF k \in pending THEN Throw(c)
    ELSE ConstructAspect(
            FoldSeq(LAMBDA acc, j : InjectAspectWithin(acc, el, j, pending \cup {k}), c, injects[k]),
            el, k)

\* injectAspect(el, token)
InjectAspect(c, el, k) == InjectAspectWithin(c, el, k, {})

\* disconnectAspect, for one connection conn that el has to the aspect
EvictConnection(c, el, conn) ==
    ChildDelete(
        ConnectionDisconnect(
            IF IsHostId(conn.hostId) /\ IsConnected(el)
            THEN CAddOrphan(c, el, conn.hostId, conn.descriptor) ELSE c,
            el, ChildGet(c, el, conn.descriptor)),
        el, conn.descriptor)

\* EvictMember that evicts every connection of the member, whatever aspect it is to
EvictMemberAllLinks(c, a, el) ==
    IF ~c.ch[el].def THEN Throw(c)
    ELSE FoldSeq(LAMBDA acc, conn : EvictConnection(acc, el, conn), c, c.ch[el].m)

\* disconnectAspect, for one member el of the aspect a: el.stim_tm_child.forEach
EvictMember(c, a, el) ==
    IF ~c.ch[el].def THEN Throw(c)
    ELSE FoldSeq(LAMBDA acc, conn : EvictConnection(acc, el, conn), c,
                 SelectSeq(c.ch[el].m, LAMBDA x : x.aspect = a))

\* disconnectAspect without its last statement
AspectDisconnectedKeepsSet(c, a) ==
    IF c.err THEN c
    ELSE [CLogged(c, a, "disconnected", c.asp[a].el) EXCEPT !.asp[a].isConnected = FALSE]

\* disconnectAspect, after the loops: aspect.disconnected() and the flags
AspectDisconnected(c, a) ==
    IF c.err THEN c
    ELSE [CLogged(c, a, "disconnected", c.asp[a].el) EXCEPT
            !.asp[a].isConnected = FALSE, !.ca = @ \ {a}]

\* disconnectAspect(aspect); aspect 0 is undefined
DisconnectAspect(c, a) ==
    IF c.err THEN c
    ELSE IF a = 0 THEN Throw(c)
    ELSE AspectDisconnected(
            FoldSeq(LAMBDA acc, el : EvictMember(acc, a, el), c,
                    InOrder(UNION {c.asp[a].elements[ty] : ty \in DOMAIN c.asp[a].elements})),
            a)

\* hostTokensAdded, for a newly connected aspect with token k: the orphans that
\* wait for el's id
ResolveOrphans(c, el, k) ==
    LET h == IF Len(ElId[el]) = 1 THEN ElId[el][1] ELSE ""
    IN FoldSeq(LAMBDA acc, entry : ChildTokensAdded(acc, entry.el,
                    SelectSeq(entry.tokens, LAMBDA id : IncludesTokenDot(id, k))),
               c, IF h \in HostIdTexts THEN c.oh[h].m ELSE <<>>)

\* hostTokensAdded, for a newly connected aspect with token k: the descendants
\* of el whose connect attribute names the token and whose scope is el
ConnectDescendants(c, el, k) ==
    FoldSeq(LAMBDA acc, child :
                IF acc.err THEN acc
                ELSE IF el # Closest(child, {e \in Nodes : ScopeMatches(acc, e, k)}) THEN acc
                ELSE ChildTokensAdded(acc, child,
                        SelectSeq(ConnectAttr(child).v, LAMBDA id : IncludesTokenDot(id, k))),
            c, SelectSeq(Descendants(el), LAMBDA d :
                    \E n \in DOMAIN ConnectAttr(d).v : IncludesTokenDot(ConnectAttr(d).v[n], k)))

\* hostTokensAdded, after aspect.connected() and the flags
AspectConnected(c, el, k, connectDescendants) ==
    IF connectDescendants THEN ConnectDescendants(ResolveOrphans(c, el, k), el, k)
    ELSE ResolveOrphans(c, el, k)

\* hostTokensAdded, the body of el.stim_tm_host.forEach for the aspect a
ConnectAspect(c, el, a, connectDescendants) ==
    IF c.err \/ c.asp[a].isConnected THEN c
    ELSE AspectConnected([CLogged(c, a, "connected", el) EXCEPT
                            !.asp[a].isConnected = TRUE, !.ca = @ \cup {a}],
                         el, c.asp[a].token, connectDescendants)

\* hostTokensAdded, from el.stim_tm_host.forEach on
ConnectAspects(c, el, connectDescendants) ==
    FoldSeq(LAMBDA acc, a : ConnectAspect(acc, el, a, connectDescendants),
            c, IF c.err THEN <<>> ELSE c.hm[el].m)

\* hostTokensAdded(el, tokens, connectDescendants)
HostTokensAdded(c, el, tokens, connectDescendants) ==
    IF c.err THEN c
    ELSE IF tokens = <<>> THEN c
    ELSE ConnectAspects(
            SetHostScopeAttribute(
                FoldSeq(LAMBDA acc, id : InjectAspect(acc, el, id[1]), c, tokens), el),
            el, connectDescendants)

\* hostTokensRemoved, for one token: el.stim_tm_host?.delete(token)
HostDelete(c, el, a) ==
    IF c.err \/ ~c.hm[el].def THEN c ELSE [c EXCEPT !.hm[el].m = Without(@, a)]

\* hostTokensRemoved, the body of the loop for one token
HostTokenRemoved(c, el, k) ==
    HostDelete(DisconnectAspect(c, HostGet(c, el, k)), el, HostGet(c, el, k))

\* hostTokensRemoved(el, tokens)
HostTokensRemoved(c, el, tokens) ==
    IF c.err THEN c
    ELSE SetHostScopeAttribute(
            FoldSeq(LAMBDA acc, id : HostTokenRemoved(acc, el, id[1]), c, tokens), el)

\* hostElAdded(el), with no custom element registered
HostElAdded(c, el) ==
    HostTokensAdded(c, el, FilterHostTokens(ConnectAttr(el).v), FALSE)

\* hostElRemoved(el)
HostElRemoved(c, el) ==
    IF c.err \/ el = Root THEN c
    ELSE FoldSeq(LAMBDA acc, a : DisconnectAspect(acc, a), c, c.hm[el].m)

\* the elements connectNode and disconnectNode go through: the node if it has
\* the connect attribute, then getConnectEls(node)
ConnectNodes(node) ==
    (IF HasConnect(node) THEN <<node>> ELSE <<>>) \o GetConnectEls(node)

\* connectNode, its first loop: the registered selector callback is invoked for the
\* node and for each of its descendants (every element matches the selector)
CSelectorCallbacks(c, node) ==
    IF c.err \/ ~selRegistered THEN c
    ELSE [c EXCEPT !.sel = [d \in Els |-> IF node \in Range(Ancestors(d)) THEN @[d] + 1 ELSE @[d]]]

\* connectNode(node), with no handler attribute
ConnectNode(c, node) ==
    FoldSeq(ChildElAdded, FoldSeq(HostElAdded, CSelectorCallbacks(c, node), ConnectNodes(node)),
            ConnectNodes(node))

\* disconnectNode(node)
DisconnectNode(c, node) ==
    FoldSeq(HostElRemoved, FoldSeq(ChildElRemoved, c, ConnectNodes(node)), ConnectNodes(node))

\* an exception that nothing caught ends the callback (or the call) it is in
Uncaught(c) == IF c.err THEN [c EXCEPT !.err = FALSE, !.threw = @ + 1] ELSE c

\* the callback of childListObserver
CChildListObserver(c, records) ==
    Uncaught(FoldSeq(LAMBDA acc, rec : IF rec.removed THEN DisconnectNode(acc, rec.node)
                                       ELSE ConnectNode(acc, rec.node),
                     c, records))

\* attributeObserver, for one record of the connect attribute of el: the ids
\* that went are removed, then the ids that came are added
ConnectAttributeChanged(c, el, old, new) ==
    LET removed == SelectSeq(old.v, LAMBDA id : id \notin Range(new.v))
        added == SelectSeq(new.v, LAMBDA id : id \notin Range(old.v))
    IN IF c.err THEN c
       ELSE IF ~old.has \/ ~new.has THEN Throw(c)
       ELSE ChildTokensAdded(
                HostTokensAdded(
                    HostTokensRemoved(
                        ChildTokensRemoved(c, el, FilterChildTokens(removed)),
                        el, FilterHostTokens(removed)),
                    el, FilterHostTokens(added), TRUE),
                el, FilterChildTokens(added))

\* the callback of attributeObserver, for records of the connect attribute
CAttributeObserver(c, records) ==
    Uncaught(FoldSeq(LAMBDA acc, rec :
                        ConnectAttributeChanged(acc, rec.el,
                            ConnectAttrOf(rec.oldValue, rec.oldTarget), ConnectAttr(rec.el)),
                     c, records))

(***************************************************************************)
(* The state after construction: a document, nothing observed, no instance.*)
(***************************************************************************)
\* no call of connect() yet: nothing observed, no instance
StimIdle ==
    /\ ctrlAttr = [e \in Els |-> IF e \in {"o", "i"} THEN Attr(<<"K">>) ELSE NoAttr]
    /\ observing = FALSE
    /\ transient = {}
    /\ recChild = <<>>
    /\ recAttr = <<>>
    /\ mq = <<>>
    /\ running = FALSE
    /\ ops = 0
    /\ used = {}
    /\ delivered = <<>>
    /\ deliveredAttr = <<>>
    /\ moved = {}
    /\ controllers = [e \in Els |-> [k \in Tokens |-> NoController(k)]]
    /\ tobjs = <<>>
    /\ targets = [e \in Els |-> [d \in Descs |-> 0]]
    /\ orphans = [h \in HostIds |-> <<>>]
    /\ elc = [e \in Nodes |-> FALSE]
    /\ nextId = 1
    /\ log = [e \in Els |-> [k \in Tokens |-> <<>>]]
    /\ sThrew = 0
    /\ sSel = [e \in Els |-> 0]
    /\ cSel = [e \in Els |-> 0]
    /\ selAdds = [e \in Els |-> 0]
    /\ hostMap = [e \in Els |-> Undefined]
    /\ aspects = <<>>
    /\ childMap = [e \in Els |-> Undefined]
    /\ cOrphans = [e \in Els |-> Undefined]
    /\ orphanHosts = [h \in HostIdTexts |-> Undefined]
    /\ connectedAspects = {}
    /\ scopeAttr = [e \in Els |-> NoAttr]
    /\ threw = 0
    /\ cObserving = FALSE
    /\ sReg = [k \in Tokens |-> "none"]
    /\ sInj = [k \in Tokens |-> <<>>]
    /\ sTok = [cls \in Classes |-> "undefined"]
    /\ cReg = [k \in Tokens |-> "none"]
    /\ cTok = [cls \in Classes |-> "undefined"]
    /\ regHist = [n |-> 0, first |-> [k \in Tokens |-> "none"], made |-> <<>>]

(***************************************************************************)
(* The JavaScript values a declared property takes.  t is the result of    *)
(* typeof, v the JSON text of the value (the characters of a string), ref  *)
(* tells objects with the same text apart: "parsed" is the result of a     *)
(* JSON.parse, which is a new object each time.                            *)
(***************************************************************************)
JsUndefined == [t |-> "undefined", v |-> "", ref |-> ""]
\* no value: a key that is not in an object, an override the injector does not declare
NoValue == [t |-> "none", v |-> "", ref |-> ""]
\* element.hasAttribute(name) is false, getAttribute(name) is null
AbsentAttr == [has |-> FALSE, s |-> ""]
\* the bulk attribute is absent
AbsentBulk == [has |-> FALSE, key |-> NoValue]
\* an element the property's instance has not been constructed on
NoInstance(at, bulk, observed) ==
    [created |-> FALSE, val |-> JsUndefined, attr |-> at, bulk |-> bulk, observed |-> observed, recs |-> <<>>]

\* no property is under observation
PropIdle ==
    /\ propEnv = [def |-> JsUndefined, over |-> NoValue]
    /\ sprop = NoInstance(AbsentAttr, AbsentBulk, FALSE)
    /\ cprop = NoInstance(AbsentAttr, AbsentBulk, FALSE)
    /\ propHist = [ops |-> 0, last |-> "none", wrote |-> NoValue, clean |-> FALSE,
                   at |-> [attr |-> AbsentAttr, bulk |-> AbsentBulk]]

\* no element with an action is under observation
ActionIdle ==
    /\ actEnv = [attached |-> FALSE, host |-> "none", words |-> <<>>, method |-> "m"]
    /\ aobjs = <<>>
    /\ actions = 0
    /\ actq = <<>>
    /\ handlers = [has |-> FALSE, listening |-> FALSE]
    /\ actHist = [events |-> 0, heard |-> 0, sFired |-> 0, cFired |-> 0,
                  sPrevented |-> FALSE, cPrevented |-> FALSE]

Init ==
    /\ attached \in [Els -> BOOLEAN]
    /\ registered = Tokens
    /\ selRegistered = FALSE
    /\ StimIdle
    /\ injects = Injects
    /\ targetAttr = TargetAttr
    /\ ActionIdle
    /\ PropIdle

\* the Stim state s becomes the next state
SetStim(s) ==
    /\ controllers' = s.c
    /\ tobjs' = s.tb
    /\ targets' = s.tm
    /\ orphans' = s.orp
    /\ elc' = s.elc
    /\ mq' = s.mq
    /\ nextId' = s.nid
    /\ log' = s.log
    /\ sThrew' = s.threw
    /\ sSel' = s.sel

\* the Connector state c becomes the next state
SetConn(c) ==
    /\ hostMap' = c.hm
    /\ aspects' = c.asp
    /\ childMap' = c.ch
    /\ cOrphans' = c.orp
    /\ orphanHosts' = c.oh
    /\ connectedAspects' = c.ca
    /\ scopeAttr' = c.scope
    /\ threw' = c.threw
    /\ cSel' = c.sel

(***************************************************************************)
(* The host script.  It runs between microtask checkpoints; what it does   *)
(* to an observed node is recorded for the mutation observers.             *)
(***************************************************************************)
\* the host script performs an operation of the kind op
Did(op) ==
    /\ ops' = ops + 1
    /\ used' = used \cup {op}
    /\ UNCHANGED <<delivered, deliveredAttr>>

\* a mutation of node n is recorded: n is in the observed document, or in a
\* subtree removed from it since the observers were last notified
Observed(n) ==
    observing /\ \E a \in Range(Ancestors(n)) : a = Root \/ a \in transient

\* "queue a mutation observer microtask": once, until it runs
WithNotify(q) == IF NotifyTask \in Range(q) THEN q ELSE Append(q, NotifyTask)

\* parent.removeChild(e)
DomRemove(e) ==
    /\ ~running /\ ops < MaxOps
    /\ attached[e]
    /\ attached' = [attached EXCEPT ![e] = FALSE]
    /\ Did("removeChild")
    /\ moved' = moved \cup {e}
    /\ IF Observed(Parent[e])
       THEN /\ recChild' = Append(recChild, [removed |-> TRUE, node |-> e])
            /\ transient' = transient \cup {e}
            /\ mq' = WithNotify(mq)
       ELSE UNCHANGED <<recChild, transient, mq>>
    /\ UNCHANGED <<ctrlAttr, observing, recAttr, running, registered, selRegistered, selAdds>>
    /\ UNCHANGED <<stimVars, connVars, actVars, propVars, regVars>>

\* parent.appendChild(e), for an element that has no parent
DomAppend(e) ==
    /\ ~running /\ ops < MaxOps
    /\ ~attached[e]
    /\ attached' = [attached EXCEPT ![e] = TRUE]
    /\ Did("appendChild")
    /\ selAdds' = [d \in Els |-> IF selRegistered /\ Observed(Parent[e]) /\ e \in Range(Ancestors(d))
                                 THEN selAdds[d] + 1 ELSE selAdds[d]]
    /\ moved' = moved \cup {e}
    /\ IF Observed(Parent[e])
       THEN /\ recChild' = Append(recChild, [removed |-> FALSE, node |-> e])
            /\ mq' = WithNotify(mq)
       ELSE UNCHANGED <<recChild, mq>>
    /\ UNCHANGED <<ctrlAttr, observing, transient, recAttr, running, registered, selRegistered>>
    /\ UNCHANGED <<stimVars, connVars, actVars, propVars, regVars>>

\* e.setAttribute(controller attribute, v), or removeAttribute for NoAttr
DomSetController(e, v) ==
    /\ ~running /\ ops < MaxOps
    /\ v.has \/ ctrlAttr[e].has
    /\ ctrlAttr' = [ctrlAttr EXCEPT ![e] = v]
    /\ Did("setAttribute")
    /\ IF Observed(e)
       THEN /\ recAttr' = Append(recAttr, [el |-> e, name |-> "controller",
                                           oldValue |-> ctrlAttr[e], oldTarget |-> targetAttr[e]])
            /\ mq' = WithNotify(mq)
       ELSE UNCHANGED <<recAttr, mq>>
    /\ UNCHANGED <<attached, observing, transient, recChild, running, moved, registered, selRegistered, selAdds>>
    /\ UNCHANGED <<stimVars, connVars, actVars, propVars, regVars>>

\* stim.connect()
Connect ==
    /\ ~running /\ ops < MaxOps
    /\ Did(IF "connect" \in used THEN "connectAgain" ELSE "connect")
    /\ observing' = TRUE
    /\ selAdds' = [d \in Els |-> IF selRegistered /\ IsConnected(d) THEN selAdds[d] + 1 ELSE selAdds[d]]
    /\ SetStim(StimUncaught(ConnectElement(StimState, Root)))
    /\ SetConn(Uncaught(ConnectNode(ConnState, Root)))
    /\ cObserving' = (cObserving \/ ~ConnectNode(ConnState, Root).err)
    /\ UNCHANGED <<attached, ctrlAttr, transient, recChild, recAttr, running, moved, registered, selRegistered, actVars, propVars, regVars>>

\* stim.disconnect(): the observers drop their records and registrations
Disconnect ==
    /\ ~running /\ ops < MaxOps
    /\ Did("disconnect")
    /\ observing' = FALSE
    /\ recChild' = <<>>
    /\ recAttr' = <<>>
    /\ transient' = {}
    /\ SetStim(StimUncaught(DisconnectElement(StimState, Root)))
    /\ SetConn(Uncaught(DisconnectNode(ConnState, Root)))
    /\ cObserving' = FALSE
    /\ UNCHANGED <<attached, ctrlAttr, running, moved, registered, selRegistered, selAdds, actVars, propVars, regVars>>

(***************************************************************************)
(* The microtask checkpoint: the queue is drained, first in first out.     *)
(***************************************************************************)
\* the first microtask of the queue runs
RunTask(s, task) ==
    CASE task.k = "notify" -> AttributeObserver(StimUncaught(ChildListObserver(s, recChild)), recAttr)
      [] task.k = "connCtl" -> ConnectController(s, task.el, task.token)
      [] task.k = "connTgt" -> ConnectTarget(s, task.t)
      [] task.k = "setTargets" -> SetTargets(s, task.el, targetAttr[task.el])

Microtask ==
    /\ mq # <<>>
    /\ SetStim(StimUncaught(RunTask([StimState EXCEPT !.mq = Tail(mq)], Head(mq))))
    /\ running' = (mq' # <<>>)
    /\ IF Head(mq).k = "notify"
       THEN /\ recChild' = <<>> /\ recAttr' = <<>> /\ transient' = {}
            /\ delivered' = recChild
            /\ deliveredAttr' = [n \in DOMAIN recAttr |->
                    [el |-> recAttr[n].el, oldValue |-> recAttr[n].oldValue, newValue |-> ctrlAttr[recAttr[n].el]]]
            /\ SetConn(IF cObserving
                       THEN CAttributeObserver(CChildListObserver(ConnState, recChild), recAttr)
                       ELSE ConnState)
            /\ UNCHANGED cObserving
       ELSE UNCHANGED <<recChild, recAttr, transient, delivered, deliveredAttr, connVars>>
    /\ UNCHANGED <<attached, ctrlAttr, observing, ops, used, moved, registered, selRegistered, selAdds, actVars, propVars, regVars>>

Next ==
    \/ \E e \in Els : DomRemove(e)
    \/ \E e \in Els : DomAppend(e)
    \/ \E e \in CtrlEls, v \in CtrlVals : DomSetController(e, v)
    \/ Connect
    \/ Disconnect
    \/ Microtask

Spec == Init /\ [][Next]_vars

(***************************************************************************)
(* What the properties speak of.                                           *)
(***************************************************************************)
LifecycleEvents == {"initialized", "connected", "disconnected"}

\* the lifecycle callbacks invoked on an instance, in order
Lifecycle(l) == [n \in DOMAIN SelectSeq(l, LAMBDA x : x.ev \in LifecycleEvents) |->
                    SelectSeq(l, LAMBDA x : x.ev \in LifecycleEvents)[n].ev]

\* initialized once and first, then connected and disconnected in turn
Alternates(l) ==
    \A n \in DOMAIN l :
        l[n] = (IF n = 1 THEN "initialized" ELSE IF n % 2 = 0 THEN "connected" ELSE "disconnected")

\* the host script has only called connect(), once, and added and removed nodes
OnlyAddRemove == used \subseteq {"connect", "appendChild", "removeChild"}

\* how many times the callback ev was invoked
Count(l, ev) == Cardinality({n \in DOMAIN l : l[n].ev = ev})

\* the callback ev was invoked with the element el
Called(l, ev, el) == \E n \in DOMAIN l : l[n].ev = ev /\ l[n].el = el

\* the observers are registered and nothing is pending: every record has been
\* delivered and every microtask has run
Quiet == observing /\ ~running /\ mq = <<>> /\ recChild = <<>> /\ recAttr = <<>>

\* the members of the target sets of the controller of e for k (index.js)
SMembers(e, k) == UNION {controllers[e][k].targets[ty] : ty \in DeclaredTargets[k]}

\* the members of the element sets of the aspect a (Connector.js)
AMembers(a) == UNION {aspects[a].elements[ty] : ty \in DOMAIN aspects[a].elements}

\* el.stim_tm_host.get(k) in the current state, 0 when there is none
AspectOf(e, k) == HostGet(ConnState, e, k)

\* the controller attribute of e asks for an instance of k, directly or by injection
Hosts(e, k) ==
    /\ HasCtrl(e)
    /\ \E n \in DOMAIN ctrlAttr[e].v :
            \E m \in DOMAIN InjectTokens(ctrlAttr[e].v[n]) : InjectTokens(ctrlAttr[e].v[n])[m][1] = k

\* a childList record
Added(e) == [removed |-> FALSE, node |-> e]
Removed(e) == [removed |-> TRUE, node |-> e]

(***************************************************************************)
(* C1.  Lifecycle trace.                                                   *)
(***************************************************************************)
\* C1, for the controllers of index.js: over any sequence of host add / remove /
\* reinsert operations, the lifecycle callbacks invoked on an instance are
\* initialized, once and first, then connected, then disconnected and connected in
\* turn: a removal gives exactly one disconnected, a reinsertion one connected, and
\* initialized is never invoked a second time
C1_StimLifecycle ==
    OnlyAddRemove => \A e \in Els, k \in Tokens : Alternates(Lifecycle(log[e][k]))

\* C1, for the aspects of Connector.js: the same trace
C1_ConnectorLifecycle ==
    OnlyAddRemove => \A a \in DOMAIN aspects : Alternates(Lifecycle(aspects[a].log))

(***************************************************************************)
(* C2.  A member of a target set has a connected controller.               *)
(***************************************************************************)
\* C2, for the controllers of index.js: in every state, a controller that has a
\* member in a target set is marked connected, and disconnected() never sees a
\* member: the memberships are evicted in the step that disconnects the controller
C2_StimMembers ==
    OnlyAddRemove =>
        \A e \in Els, k \in Tokens :
            /\ SMembers(e, k) # {} => controllers[e][k].connected
            /\ \A n \in DOMAIN log[e][k] :
                    log[e][k][n].ev = "disconnected" => log[e][k][n].members = {}

\* C2, for the aspects of Connector.js: the same
C2_ConnectorMembers ==
    OnlyAddRemove =>
        \A a \in DOMAIN aspects :
            /\ AMembers(a) # {} => aspects[a].isConnected
            /\ \A n \in DOMAIN aspects[a].log :
                    aspects[a].log[n].ev = "disconnected" => aspects[a].log[n].members = {}

(***************************************************************************)
(* C3.  One instance for a host and a token.                               *)
(***************************************************************************)
\* C3: every controller ever constructed is the one instance #controllers holds for
\* its host and token, and a host's stim_tm_host holds no token twice: adding a token
\* that is present (directly, by injection or by a repeated add) makes no instance
C3_SingleInstance ==
    /\ Cardinality({p \in Els \X Tokens : controllers[p[1]][p[2]].exists}) = nextId - 1
    /\ \A e \in Els, k \in Tokens : Count(log[e][k], "initialized") <= 1
    /\ \A e \in Els : \A m, n \in DOMAIN hostMap[e].m :
            aspects[hostMap[e].m[m]].token = aspects[hostMap[e].m[n]].token => m = n
    /\ \A e \in Els : \A n \in DOMAIN hostMap[e].m : aspects[hostMap[e].m[n]].el = e

\* the instance of J that K injected on o is now asked for by the attribute itself,
\* and o has been added again since: J's instance was connected a second time
C3_TokenAddedAgain ==
    /\ ctrlAttr["o"] = Attr(<<"J">>)
    /\ controllers["o"]["J"].propToken = <<"J", "/", "K">>
    /\ Count(log["o"]["J"], "connected") >= 2
    /\ AspectOf("o", "J") # 0
    /\ Count(aspects[AspectOf("o", "J")].log, "connected") >= 2

(***************************************************************************)
(* C4.  A remote link that does not resolve is an orphan.                  *)
(***************************************************************************)
\* the remote links the Stim holds, in #targets or in #orphans, for the elements
\* of the document
StimRemoteLinks ==
    {t \in DOMAIN tobjs :
        /\ tobjs[t].hostId # <<>>
        /\ IsConnected(tobjs[t].el)
        /\ \/ targets[tobjs[t].el][tobjs[t].descriptor] = t
           \/ t \in Range(orphans[tobjs[t].hostId])}

\* the host id of the link resolves to a live, connected controller of its token
StimResolves(t) ==
    LET host == GetElementById(tobjs[t].hostId)
    IN /\ host # "null"
       /\ controllers[host][tobjs[t].token].exists
       /\ controllers[host][tobjs[t].token].connected

ConnectorResolves(conn) ==
    LET host == GetElementById(<<conn.hostId>>)
    IN /\ host # "null"
       /\ AspectOf(host, conn.aspectToken) # 0
       /\ aspects[AspectOf(host, conn.aspectToken)].isConnected

\* C4, for the target links of index.js: once everything pending has been processed,
\* a link of an element of the document whose descriptor names a host id that does
\* not resolve to a live, connected controller is in the orphan index and holds no
\* reference to a controller
C4_StimOrphanHoldsNoController ==
    OnlyAddRemove /\ Quiet =>
        \A t \in StimRemoteLinks :
            ~StimResolves(t) =>
                /\ t \in Range(orphans[tobjs[t].hostId])
                /\ tobjs[t].controller = "undefined"
                /\ ~tobjs[t].connected

\* C4, for the element connections of Connector.js: the same
C4_ConnectorOrphanHoldsNoAspect ==
    OnlyAddRemove /\ Quiet =>
        \A e \in Els : \A n \in DOMAIN childMap[e].m :
            LET conn == childMap[e].m[n]
            IN /\ IsConnected(e) /\ conn.valid
               /\ conn.hostId \notin {"", "undefined"} /\ ~ConnectorResolves(conn)
               => /\ conn.aspect = 0
                  /\ ~conn.connected
                  /\ cOrphans[e].def /\ conn.hostId \in Range(cOrphans[e].m)

(***************************************************************************)
(* C5.  An orphan connects when its host appears.                          *)
(***************************************************************************)
\* C5: once everything pending has been processed, the remote target r whose host o
\* (the element with the id it names, hosting the token it names) is in the document
\* is a member of the target set of o's controller, and the target-connected callback
\* was invoked with r, whichever of the two was added first and with no change to r
C5_OrphanConnects ==
    OnlyAddRemove /\ Quiet /\ IsConnected("r") /\ IsConnected("o") =>
        /\ "r" \in SMembers("o", "K")
        /\ Called(log["o"]["K"], "targetConnected", "r")
        /\ AspectOf("o", "K") # 0
        /\ "r" \in AMembers(AspectOf("o", "K"))
        /\ Called(aspects[AspectOf("o", "K")].log, "targetConnected", "r")

\* connect() found r and no element with the id a; o was added afterwards, and r is
\* now a member in both variants
C5_OrphanResolved ==
    /\ Quiet /\ ops = 2 /\ used = {"connect", "appendChild"}
    /\ delivered = <<Added("o")>>
    /\ IsConnected("r")
    /\ "r" \in SMembers("o", "K")
    /\ AspectOf("o", "K") # 0 /\ "r" \in AMembers(AspectOf("o", "K"))

(***************************************************************************)
(* C6.  A remote link whose host goes away is an orphan again.             *)
(***************************************************************************)
\* C6, for the target links of index.js: once everything pending has been processed,
\* the remote target r that is in the document while its host o is not is registered
\* in the orphan index under the host id a; in particular a link that was connected
\* when o was removed is re-registered there
C6_StimReorphaned ==
    OnlyAddRemove /\ Quiet /\ IsConnected("r") /\ ~IsConnected("o") =>
        \E t \in Range(orphans[<<"a">>]) :
            tobjs[t].el = "r" /\ tobjs[t].descriptor = RemoteDesc /\ ~tobjs[t].connected

\* C6, for the element connections of Connector.js: the same
C6_ConnectorReorphaned ==
    OnlyAddRemove /\ Quiet /\ IsConnected("r") /\ ~IsConnected("o") =>
        /\ orphanHosts["a"].def
        /\ \E n \in DOMAIN orphanHosts["a"].m :
                /\ orphanHosts["a"].m[n].el = "r"
                /\ RemoteDesc \in Range(orphanHosts["a"].m[n].tokens)

(***************************************************************************)
(* C7.  A local target belongs to the innermost host.                      *)
(***************************************************************************)
\* C7: the local target t of K, inside the host i of K that is inside the host o
\* of K, is a member of a target set of i's controller only, never of o's
C7_InnermostHostOnly ==
    /\ \A e \in Els, k \in Tokens : "t" \in SMembers(e, k) => e = "i" /\ k = "K"
    /\ \A a \in DOMAIN aspects : "t" \in AMembers(a) => aspects[a].el = "i" /\ aspects[a].token = "K"

\* o, i and t are nested in the document, both hosts have a connected instance of
\* K, and t is a member of i's
C7_NestedConnected ==
    /\ IsConnected("t")
    /\ controllers["o"]["K"].connected /\ controllers["i"]["K"].connected
    /\ "t" \in SMembers("i", "K")
    /\ AspectOf("o", "K") # 0 /\ aspects[AspectOf("o", "K")].isConnected
    /\ AspectOf("i", "K") # 0 /\ "t" \in AMembers(AspectOf("i", "K"))

(***************************************************************************)
(* C8.  The instance survives removal and reinsertion.                     *)
(***************************************************************************)
\* C8: while the host script only removes and re-appends nodes, no step changes the
\* instance getController(el, token) returns (index.js) or the aspect
\* el.stim_tm_host holds for the token (Connector.js) once there is one
C8_IdentityPreserved ==
    [][OnlyAddRemove' =>
        /\ \A e \in Els, k \in Tokens :
                controllers[e][k].exists =>
                    controllers'[e][k].exists /\ controllers'[e][k].id = controllers[e][k].id
        /\ \A e \in Els, k \in Tokens :
                AspectOf(e, k) # 0 => AspectOf(e, k)' = AspectOf(e, k)]_vars

\* o was removed and re-appended: its instance of K was connected, disconnected and
\* connected again, in both variants
C8_Reinserted ==
    /\ OnlyAddRemove
    /\ Lifecycle(log["o"]["K"]) = <<"initialized", "connected", "disconnected", "connected">>
    /\ controllers["o"]["K"].id = 1
    /\ AspectOf("o", "K") # 0
    /\ Lifecycle(aspects[AspectOf("o", "K")].log) = <<"initialized", "connected", "disconnected", "connected">>

(***************************************************************************)
(* C9.  Never more disconnected() than connected().                        *)
(***************************************************************************)
\* C9, for the controllers of index.js: in every state (so after every prefix of an
\* execution) disconnected() has been invoked on an instance at most as often as
\* connected()
C9_StimCounts ==
    \A e \in Els, k \in Tokens :
        Count(log[e][k], "disconnected") <= Count(log[e][k], "connected")

\* C9, for the aspects of Connector.js: the same
C9_ConnectorCounts ==
    \A a \in DOMAIN aspects :
        Count(aspects[a].log, "disconnected") <= Count(aspects[a].log, "connected")

(***************************************************************************)
(* C10.  Adds and removes coalesced in one batch.                          *)
(***************************************************************************)
\* C10: once the pending batches have been processed, whatever adds and removes of
\* a host they coalesced (add, remove, add in particular), a host that ends in the
\* document has its controller: the instance exists, is connected, and connected()
\* has been invoked on it
C10_CoalescedEndsConnected ==
    OnlyAddRemove /\ Quiet =>
        \A e \in Els, k \in Tokens :
            IsConnected(e) /\ Hosts(e, k) =>
                /\ controllers[e][k].exists /\ controllers[e][k].connected
                /\ Count(log[e][k], "connected") >= 1
                /\ AspectOf(e, k) # 0 /\ aspects[AspectOf(e, k)].isConnected
                /\ Count(aspects[AspectOf(e, k)].log, "connected") >= 1

\* the last batch delivered was: o added, o removed, o added; and o's controller
\* is connected in both variants
C10_AddRemoveAdd ==
    /\ Quiet /\ OnlyAddRemove
    /\ delivered = <<Added("o"), Removed("o"), Added("o")>>
    /\ controllers["o"]["K"].connected
    /\ AspectOf("o", "K") # 0 /\ aspects[AspectOf("o", "K")].isConnected

(***************************************************************************)
(* C11.  The local targets of a host that is removed and reinserted.       *)
(***************************************************************************)
\* the target callbacks invoked with el, in order
TargetEvents(l, el) ==
    SelectSeq(l, LAMBDA x : x.el = el /\ x.ev \in {"targetConnected", "targetDisconnected"})

\* the last target callback invoked with el was ev
LastIs(l, el, ev) ==
    TargetEvents(l, el) # <<>> /\ TargetEvents(l, el)[Len(TargetEvents(l, el))].ev = ev

\* the local target t has been in the subtree of its host i all along
Stayed == OnlyAddRemove /\ attached["t"] /\ "t" \notin moved

\* the step that delivers a batch of removals taking the host i out of the document
HostRemoved ==
    /\ Stayed /\ mq # <<>> /\ Head(mq).k = "notify"
    /\ recChild # <<>>
    /\ \A n \in DOMAIN recChild : recChild[n].removed
    /\ \/ Removed("i") \in Range(recChild)
       \/ Removed("o") \in Range(recChild) /\ attached["i"]
    /\ recChild' = <<>> /\ observing'

\* C11: the step that processes the removal of the host i (by itself or with its
\* ancestor o) leaves the local target t of its subtree in no target set of i's
\* instance, and the last callback invoked with a t that was a member is
\* target-disconnected; and once everything pending has been processed with the
\* host in the document again, the t that stayed in its subtree is a member of the
\* target set and the last callback invoked with it is target-connected.  Both hold
\* for the controllers of index.js and for the aspects of Connector.js
C11_TargetsFollowHost ==
    [][/\ HostRemoved =>
            /\ "t" \notin SMembers("i", "K")'
            /\ "t" \in SMembers("i", "K") => LastIs(log["i"]["K"], "t", "targetDisconnected")'
            /\ \A a \in DOMAIN aspects : aspects[a].el = "i" /\ aspects[a].token = "K" =>
                    /\ "t" \notin AMembers(a)'
                    /\ "t" \in AMembers(a) => LastIs(aspects[a].log, "t", "targetDisconnected")'
       /\ (Stayed /\ Quiet /\ IsConnected("i"))' =>
            (/\ "t" \in SMembers("i", "K")
             /\ LastIs(log["i"]["K"], "t", "targetConnected")
             /\ AspectOf("i", "K") # 0 /\ "t" \in AMembers(AspectOf("i", "K"))
             /\ LastIs(aspects[AspectOf("i", "K")].log, "t", "targetConnected"))']_vars

\* i was removed with t in it and appended again: target-connected, then
\* target-disconnected, then target-connected were invoked with t, in both variants
C11_HostReinserted ==
    /\ Stayed /\ Quiet /\ IsConnected("i")
    /\ delivered = <<Added("i")>>
    /\ Len(TargetEvents(log["i"]["K"], "t")) = 3
    /\ AspectOf("i", "K") # 0
    /\ Len(TargetEvents(aspects[AspectOf("i", "K")].log, "t")) = 3

(***************************************************************************)
(* C12.  connect() scans the document once.                                *)
(***************************************************************************)
\* the step is the first call of connect()
FirstConnect == "connect" \notin used /\ "connect" \in used'

\* how many microtasks of the kind k wait for the instance of token on el
TasksFor(q, k, el, token) ==
    Cardinality({n \in DOMAIN q : q[n].k = k /\ q[n].el = el /\ q[n].token = token})

\* the ControllerTarget objects made for el
TObjsFor(tb, el) == {n \in DOMAIN tb : tb[n].el = el}

DisconnectStep == observing /\ ~observing'

\* the step is a mutation of the DOM by the host script after disconnect()
MutationUnobserved ==
    /\ ~observing /\ "disconnect" \in used
    /\ attached' # attached \/ ctrlAttr' # ctrlAttr

\* C13, for the controllers of index.js: when disconnect() returns no controller
\* is marked connected and every target set is empty, and an operation of the
\* host script that mutates the DOM after it invokes no callback and queues nothing
C13_StimAllDisconnected ==
    [][/\ DisconnectStep =>
            \A e \in Els, k \in Tokens :
                ~controllers'[e][k].connected /\ SMembers(e, k)' = {}
       /\ MutationUnobserved =>
            log' = log /\ mq' = mq /\ recChild' = <<>> /\ recAttr' = <<>>]_vars

\* C13, for the aspects of Connector.js: the same
C13_ConnectorAllDisconnected ==
    [][/\ DisconnectStep =>
            \A a \in DOMAIN aspects' :
                ~aspects'[a].isConnected /\ AMembers(a)' = {}
       /\ MutationUnobserved =>
            aspects' = aspects /\ recChild' = <<>> /\ recAttr' = <<>>]_vars

(***************************************************************************)
(* Actions (src/src/index.js, #setActions and ControllerAction) and        *)
(* handlers (src/Connector.js, handlerElAdded and src/ElementEventHandler.js)*)
(* of one element whose attribute holds one descriptor,                    *)
(*     click[<options>]->K.<method>                                        *)
(* with or without a host id.  actEnv.host is what the descriptor's token  *)
(* resolves to when an event fires: "none" (no host element, or no         *)
(* instance of the token on it), "off" (an instance that is not connected) *)
(* or "on" (a connected instance).                                         *)
(***************************************************************************)
MaxEvents == 3
MaxActs == 2

\* the option lists of the descriptors: words, a word being name or ! name
OptionLists ==
    {<<>>, <<<<"once">>>>, <<<<"!", "once">>>>, <<<<"prevent">>>>,
     <<<<"once">>, <<"prevent">>>>}

\* the methods a descriptor names; the class of K defines the first only
Methods == {"m", "x"}
DefinedMethods == {"m"}

HostStates == {"none", "off", "on"}

\* options[name] after the constructor's loop over the option words: the value the
\* last word for name gave it, TRUE for name and FALSE for !name; undefined is falsy
OptionValue(words, name) ==
    LET hits == {n \in DOMAIN words : words[n][Len(words[n])] = name}
    IN IF hits = {} THEN FALSE
       ELSE Len(words[CHOOSE n \in hits : \A m \in hits : m <= n]) = 1

\* the actions of index.js as one record
ActionState == [objs |-> aobjs, reg |-> actions, q |-> actq]

\* new ControllerAction(el, descriptor)
ControllerAction == [connecting |-> FALSE, connected |-> FALSE, listening |-> FALSE]

\* #addAction(action): #connectInstance(action, callback)
AddAction(a, n) ==
    [a EXCEPT !.objs[n].connecting = TRUE, !.q = Append(@, n)]

\* #removeAction(action): #disconnectInstance(action, removeEventListener)
RemoveAction(a, n) ==
    IF ~a.objs[n].connected
    THEN [a EXCEPT !.objs[n].connecting = FALSE]
    ELSE [a EXCEPT !.objs[n].connecting = FALSE,
                   !.objs[n].connected = FALSE,
                   !.objs[n].listening = FALSE]

\* #setActions(el, descriptors) for the attribute's one descriptor: the action
\* #actions has for it, or a new one, is added
SetActions(a) ==
    IF a.reg # 0 THEN AddAction(a, a.reg)
    ELSE AddAction([a EXCEPT !.objs = Append(@, ControllerAction)], Len(a.objs) + 1)

\* #setActions(el, null): the actions #actions has for el are removed
SetActionsNull(a) ==
    IF a.reg # 0 THEN RemoveAction(a, a.reg) ELSE a

\* the microtask of #connectInstance(action, callback of #addAction): the listener
\* is made and added, the action is entered into #actions
ConnectAction(a, n) ==
    IF a.objs[n].connected \/ ~a.objs[n].connecting THEN a
    ELSE [a EXCEPT !.objs[n].connecting = FALSE,
                   !.objs[n].listening = TRUE,
                   !.objs[n].connected = TRUE,
                   !.reg = n]

\* action.listener(event) of index.js: what it does to the event and the controller
ActionListener(env) ==
    IF env.host # "on" THEN [called |-> FALSE, prevented |-> FALSE]
    ELSE [called |-> env.method \in DefinedMethods,
          prevented |-> OptionValue(env.words, "prevent")]

\* the listener of an ElementEventHandler (Connector.js); the guard on the
\* instance being connected is commented out in the source
HandlerListener(env) ==
    IF env.host = "none" \/ env.method \notin DefinedMethods
    THEN [called |-> FALSE, prevented |-> FALSE]
    ELSE [called |-> TRUE, prevented |-> OptionValue(env.words, "prevent")]

\* the listeners of index.js the element has when an event is dispatched
Listening(objs) == {n \in DOMAIN objs : objs[n].listening}

\* dispatch: a listener added with once is removed when the event reaches it
AfterDispatch(objs, once) ==
    [n \in DOMAIN objs |-> [objs[n] EXCEPT !.listening = @ /\ ~once]]

\* handlerElAdded(el): a new ElementEventHandler unless el.stim_tm_handler has one
\* for the token, then connect() on every handler of the map
HandlerElAdded(h) == [has |-> TRUE, listening |-> TRUE]

\* handlerElRemoved(el): disconnect() on every handler, then the map is dropped
HandlerElRemoved(h) == [has |-> FALSE, listening |-> FALSE]

\* an element with an action is under observation, nothing is bound yet
ActionInit ==
    /\ attached = [e \in Els |-> FALSE]
    /\ registered = Tokens
    /\ selRegistered = FALSE
    /\ StimIdle
    /\ injects = Injects
    /\ targetAttr = TargetAttr
    /\ PropIdle
    /\ actEnv \in [attached : {FALSE}, host : HostStates, words : OptionLists, method : Methods]
    /\ aobjs = <<>>
    /\ actions = 0
    /\ actq = <<>>
    /\ handlers = [has |-> FALSE, listening |-> FALSE]
    /\ actHist = [events |-> 0, heard |-> 0, sFired |-> 0, cFired |-> 0,
                  sPrevented |-> FALSE, cPrevented |-> FALSE]

\* the record a of the actions of index.js becomes the next state
SetActionState(a) ==
    /\ aobjs' = a.objs
    /\ actions' = a.reg
    /\ actq' = a.q

\* the element is added to the document: connectElement / connectNode reach it
ActionElAdded ==
    /\ ~actEnv.attached
    /\ Len(actq) < MaxActs
    /\ actions # 0 \/ Len(aobjs) < MaxActs
    /\ actEnv' = [actEnv EXCEPT !.attached = TRUE]
    /\ SetActionState(SetActions(ActionState))
    /\ handlers' = HandlerElAdded(handlers)
    /\ actHist' = [actHist EXCEPT !.heard = 0, !.sFired = 0, !.cFired = 0]
    /\ UNCHANGED <<mainVars, propVars, regVars>>

\* the element is removed: disconnectElement / disconnectNode reach it
ActionElRemoved ==
    /\ actEnv.attached
    /\ actEnv' = [actEnv EXCEPT !.attached = FALSE]
    /\ SetActionState(SetActionsNull(ActionState))
    /\ handlers' = HandlerElRemoved(handlers)
    /\ UNCHANGED <<actHist, mainVars, propVars, regVars>>

\* the first microtask of #connectInstance runs
ActionMicrotask ==
    /\ actq # <<>>
    /\ SetActionState(ConnectAction([ActionState EXCEPT !.q = Tail(actq)], Head(actq)))
    /\ UNCHANGED <<actEnv, handlers, actHist, mainVars, propVars, regVars>>

\* the host of the token comes, goes, connects or disconnects
HostChanged(st) ==
    /\ actEnv.host # st
    /\ actEnv' = [actEnv EXCEPT !.host = st]
    /\ UNCHANGED <<aobjs, actions, actq, handlers, actHist, mainVars, propVars, regVars>>

\* a native event of the descriptor's type is dispatched on the element
DispatchEvent ==
    /\ actHist.events < MaxEvents
    /\ aobjs' = AfterDispatch(aobjs, OptionValue(actEnv.words, "once"))
    /\ handlers' = [handlers EXCEPT !.listening = @ /\ ~OptionValue(actEnv.words, "once")]
    /\ actHist' = [events |-> actHist.events + 1,
                   heard |-> IF actEnv.attached /\ actq = <<>> /\ actEnv.host = "on"
                             THEN actHist.heard + 1 ELSE actHist.heard,
                   sFired |-> IF ActionListener(actEnv).called
                              THEN actHist.sFired + Cardinality(Listening(aobjs))
                              ELSE actHist.sFired,
                   cFired |-> IF handlers.listening /\ HandlerListener(actEnv).called
                              THEN actHist.cFired + 1 ELSE actHist.cFired,
                   sPrevented |-> Listening(aobjs) # {} /\ ActionListener(actEnv).prevented,
                   cPrevented |-> handlers.listening /\ HandlerListener(actEnv).prevented]
    /\ UNCHANGED <<actEnv, actions, actq, mainVars, propVars, regVars>>

ActionNext ==
    \/ ActionElAdded
    \/ ActionElRemoved
    \/ ActionMicrotask
    \/ \E st \in HostStates : HostChanged(st)
    \/ DispatchEvent

ActionSpec == ActionInit /\ [][ActionNext]_vars

(***************************************************************************)
(* C14.  An action with the once option.                                   *)
(***************************************************************************)
\* the element is in the document with a once action on a method its class
\* defines, and since its binding was complete events have been dispatched on it
\* while its token resolved to a connected instance
OnceHeard ==
    /\ actEnv.attached /\ actq = <<>>
    /\ OptionValue(actEnv.words, "once")
    /\ actEnv.method \in DefinedMethods
    /\ actHist.heard >= 1

\* C14, for the actions of index.js: an action bound with once has invoked its
\* method exactly one time, however many events of its type were dispatched on
\* the element since it was bound (one at least that found a connected instance)
C14_StimOnce == OnceHeard => actHist.sFired = 1

\* C14, for the handlers of Connector.js: the same
C14_ConnectorOnce == OnceHeard => actHist.cFired = 1

(***************************************************************************)
(* C15.  An event that finds no connected instance, or no method.          *)
(***************************************************************************)
\* the step dispatches an event while the token resolves to no connected
\* instance, or to one whose class does not define the method
DispatchUnresolved ==
    /\ actHist'.events = actHist.events + 1
    /\ actEnv.host # "on" \/ actEnv.method \notin DefinedMethods

\* C15, for the actions of index.js: such an event invokes no method, does nothing
\* to the event, and changes nothing of the actions or of their listeners
C15_StimNoOp ==
    [][DispatchUnresolved =>
        /\ actHist'.sFired = actHist.sFired
        /\ ~actHist'.sPrevented
        /\ aobjs' = aobjs /\ actions' = actions /\ actq' = actq]_vars

\* C15, for the handlers of Connector.js: the same
C15_ConnectorNoOp ==
    [][DispatchUnresolved =>
        /\ actHist'.cFired = actHist.cFired
        /\ ~actHist'.cPrevented
        /\ handlers' = handlers]_vars

(***************************************************************************)
(* Declared properties: src/src/index.js, class PropSyncer, and            *)
(* AspectAttributeSyncer.js.  One declared property of one class is        *)
(* followed on one element; the two implementations each have their own    *)
(* copy of the element and receive the same operations.                    *)
(***************************************************************************)

\* the operations the host script performs on the property's element
MaxPropOps == 2

Str(s) == [t |-> "string", v |-> s, ref |-> ""]
Bool(b) == [t |-> "boolean", v |-> IF b THEN "true" ELSE "false", ref |-> ""]
Num(n) == [t |-> "number", v |-> n, ref |-> ""]
Obj(json, ref) == [t |-> "object", v |-> json, ref |-> ref]

\* the texts of the numbers, of the objects and of the strings in use
NumTexts == {"0", "5"}
ObjTexts == {"{}", "[1]"}
StrTexts == {"", "a"}
\* the values an individual attribute is given in the markup or by the host script
AttrTexts == {"", "0", "false", "5", "{}"}

\* the defaults a class declares: static props = { key: default }
Defaults == {Str(""), Bool(FALSE), Bool(TRUE), Num("0"), Obj("{}", "default")}
\* the values of the type of d, as script objects (ref) or as parsed from JSON
TypedVals(d, ref) ==
    CASE d.t = "string" -> {Str(s) : s \in StrTexts}
      [] d.t = "boolean" -> {Bool(TRUE), Bool(FALSE)}
      [] d.t = "number" -> {Num(n) : n \in NumTexts}
      [] OTHER -> {Obj(j, ref) : j \in ObjTexts}
\* what an injector declares for the key: static injects = { token: { key: value } }
Overrides(d) == {NoValue} \cup (TypedVals(d, "inject") \ {d})
\* the bulk attribute: absent, a JSON object without the key, or with a value for the key
Bulks(d) == {AbsentBulk, [has |-> TRUE, key |-> NoValue]}
            \cup {[has |-> TRUE, key |-> x] : x \in TypedVals(d, "parsed")}
\* the individual attribute: absent or present with a text
Attrs == {AbsentAttr} \cup {[has |-> TRUE, s |-> s] : s \in AttrTexts}

\* a === b: an object just parsed is identical to no other value
StrictEquals(a, b) == a = b /\ a.ref # "parsed"

\* the truthiness of a value
Truthy(x) ==
    CASE x.t = "string" -> x.v # ""
      [] x.t \in {"undefined", "none"} -> FALSE
      [] OTHER -> x.v \notin {"0", "false", "null"}

\* String(x), what element.setAttribute makes of a value that is not a string
JsString(x) ==
    IF x.t = "object" /\ x.v # "null" THEN "[object Object]"
    ELSE IF x.t = "undefined" THEN "undefined" ELSE x.v

\* JSON.stringify(x); of undefined it is undefined, which setAttribute stores as a text
JsonStringify(x) ==
    IF x.t = "string" THEN "\"" \o x.v \o "\""
    ELSE IF x.t = "undefined" THEN "undefined" ELSE x.v

\* JSON.parse(s) inside try: the text itself when it is not JSON
JsonParse(s) ==
    CASE s \in NumTexts -> Num(s)
      [] s \in {"true", "false"} -> [t |-> "boolean", v |-> s, ref |-> ""]
      [] s = "null" -> Obj("null", "")
      [] s \in ObjTexts -> Obj(s, "parsed")
      [] s \in {JsonStringify(Str(x)) : x \in StrTexts} ->
            Str(CHOOSE x \in StrTexts : JsonStringify(Str(x)) = s)
      [] OTHER -> Str(s)

\* #write(key, val), then the text setAttribute stores; ty is typeof this.#props[key]
Write(ty, val) ==
    IF ty = "string" THEN JsString(val)
    ELSE IF ty = "boolean" THEN (IF Truthy(val) THEN "" ELSE "false")
    ELSE JsonStringify(val)

\* #read(key, val)
Read(ty, s) ==
    IF ty = "string" THEN Str(s)
    ELSE IF ty = "boolean" THEN Bool(s # "0" /\ s # "false")
    ELSE JsonParse(s)

\* a mutation record of the observer of the element's attributes
AttrRecord(p, name) == [name |-> name, attr |-> p.attr, bulk |-> p.bulk]

\* element.setAttribute(individual attribute, s)
ElSetAttribute(p, s) ==
    [p EXCEPT !.attr = [has |-> TRUE, s |-> s],
              !.recs = IF p.observed THEN Append(@, AttrRecord(p, "key")) ELSE @]

\* element.removeAttribute(individual attribute)
ElRemoveAttribute(p) ==
    IF ~p.attr.has THEN p
    ELSE [p EXCEPT !.attr = AbsentAttr,
                   !.recs = IF p.observed THEN Append(@, AttrRecord(p, "key")) ELSE @]

\* element.setAttribute(bulk attribute, the JSON text of b)
ElSetBulk(p, b) ==
    [p EXCEPT !.bulk = b,
              !.recs = IF p.observed THEN Append(@, AttrRecord(p, "bulk")) ELSE @]

\* the bulk attribute is left on the element
ElKeepBulk(p) == p

\* element.removeAttribute(bulk attribute)
ElRemoveBulk(p) ==
    IF ~p.bulk.has THEN p
    ELSE [p EXCEPT !.bulk = AbsentBulk,
                   !.recs = IF p.observed THEN Append(@, AttrRecord(p, "bulk")) ELSE @]

\* this.#props[key] of the syncer of the class: the override of the injector, spread
\* over the declared props, else the declared default
Props(env) == IF env.over = NoValue THEN env.def ELSE env.over

\* PropSyncer.set(object, element, key, val, sync)
PropSet(p, props, val, sync) ==
    IF StrictEquals(val, p.val) THEN p
    ELSE IF ~sync THEN [p EXCEPT !.val = val]
    ELSE IF StrictEquals(val, props)
            \/ (props.t = "object" /\ Write(props.t, val) = Write(props.t, props))
         THEN ElRemoveAttribute([p EXCEPT !.val = val])
         ELSE ElSetAttribute([p EXCEPT !.val = val], Write(props.t, val))

\* PropSyncer.init with the bulk key looked up before the individual attribute
PropInitBulkFirst(p, props) ==
    ElRemoveBulk(IF p.bulk.key # NoValue THEN PropSet(p, props, p.bulk.key, TRUE)
                 ELSE IF p.attr.has THEN PropSet(p, props, Read(props.t, p.attr.s), FALSE)
                 ELSE PropSet(p, props, props, FALSE))

\* PropSyncer.init(object, element)
PropInit(p, props) ==
    ElRemoveBulk(IF p.attr.has THEN PropSet(p, props, Read(props.t, p.attr.s), FALSE)
                 ELSE IF p.bulk.key # NoValue THEN PropSet(p, props, p.bulk.key, TRUE)
                 ELSE PropSet(p, props, props, FALSE))

\* PropSyncer.attrChange(object, element, name, oldVal, newVal)
PropAttrChange(p, props, name) ==
    IF name = "bulk" THEN PropInit(p, props)
    ELSE PropSet(p, props, IF ~p.attr.has THEN props ELSE Read(props.t, p.attr.s), FALSE)

\* the callback of #observer.controller, for one record
ControllerObserved(p, props, rec) ==
    IF ~p.created \/ (rec.name = "bulk" /\ rec.bulk = p.bulk) \/ (rec.name = "key" /\ rec.attr = p.attr)
    THEN p
    ELSE PropAttrChange(p, props, rec.name)

\* AspectAttributeSyncer.setAttribute(aspect, attrKey, val, sync)
SetAttribute(p, attributes, val, sync) ==
    IF StrictEquals(val, p.val) THEN p
    ELSE IF ~sync THEN [p EXCEPT !.val = val]
    ELSE IF attributes.t = "object" /\ Write(attributes.t, val) = Write(attributes.t, attributes)
         THEN ElRemoveAttribute([p EXCEPT !.val = val])
    ELSE IF StrictEquals(val, attributes) THEN ElRemoveAttribute([p EXCEPT !.val = val])
    ELSE ElSetAttribute([p EXCEPT !.val = val], Write(attributes.t, val))

\* AspectAttributeSyncer.initializeAttributes(aspect, argAttributes)
InitializeAttributes(p, attributes, arg) ==
    ElRemoveBulk(IF p.attr.has THEN SetAttribute(p, attributes, Read(attributes.t, p.attr.s), FALSE)
                 ELSE IF p.bulk.key # NoValue THEN SetAttribute(p, attributes, p.bulk.key, TRUE)
                 ELSE IF arg # NoValue THEN SetAttribute(p, attributes, arg, TRUE)
                 ELSE SetAttribute(p, attributes, attributes, FALSE))

\* AspectAttributeSyncer.attributeChanged(aspect, name, oldVal, newVal): the bulk
\* attribute is no key of attrKeyMap, the aspect's own attributeChanged hook gets it
AttributeChanged(p, attributes, name) ==
    IF name = "bulk" THEN p
    ELSE SetAttribute(p, attributes, IF ~p.attr.has THEN attributes ELSE Read(attributes.t, p.attr.s), FALSE)

\* the callback of aspectObserver, for one record
AspectObserved(p, attributes, rec) ==
    IF ~p.created \/ (rec.name = "bulk" /\ rec.bulk = p.bulk) \/ (rec.name = "key" /\ rec.attr = p.attr)
    THEN p
    ELSE AttributeChanged(p, attributes, rec.name)

\* a class with one declared property, an element with its attributes
PropSpecInit ==
    /\ attached = [e \in Els |-> FALSE]
    /\ registered = Tokens
    /\ selRegistered = FALSE
    /\ StimIdle
    /\ injects = Injects
    /\ targetAttr = TargetAttr
    /\ ActionIdle
    /\ propEnv \in UNION {[def : {d}, over : Overrides(d)] : d \in Defaults}
    /\ sprop \in UNION {{NoInstance(at, b, pre) : at \in Attrs, b \in Bulks(d)} : d \in Defaults, pre \in BOOLEAN}
    /\ sprop.bulk \in Bulks(propEnv.def)
    /\ cprop = sprop
    /\ propHist = [ops |-> 0, last |-> "none", wrote |-> NoValue, clean |-> FALSE,
                   at |-> [attr |-> AbsentAttr, bulk |-> AbsentBulk]]

\* #addController / the Aspect constructor: the instance is constructed on the element
\* and initialised, then the element's attributes are observed
PropConstruct ==
    /\ ~sprop.created
    /\ sprop' = [PropInit([sprop EXCEPT !.created = TRUE], Props(propEnv)) EXCEPT !.observed = TRUE]
    /\ cprop' = [InitializeAttributes([cprop EXCEPT !.created = TRUE], propEnv.def, propEnv.over)
                    EXCEPT !.observed = TRUE]
    /\ propHist' = [propHist EXCEPT !.last = "construct", !.clean = TRUE,
                                    !.at = [attr |-> sprop.attr, bulk |-> sprop.bulk]]
    /\ UNCHANGED <<propEnv, mainVars, actVars, regVars>>

\* instance.key = v: the setter registerController / processAspect defines
PropWrite(v) ==
    /\ sprop.created
    /\ propHist.ops < MaxPropOps
    /\ sprop' = PropSet(sprop, Props(propEnv), v, TRUE)
    /\ cprop' = SetAttribute(cprop, propEnv.def, v, TRUE)
    /\ propHist' = [propHist EXCEPT !.ops = @ + 1, !.last = "write", !.wrote = v, !.clean = FALSE]
    /\ UNCHANGED <<propEnv, mainVars, actVars, regVars>>

\* the host script gives the individual attribute the text s
HostSetAttribute(s) ==
    /\ propHist.ops < MaxPropOps
    /\ sprop' = ElSetAttribute(sprop, s)
    /\ cprop' = ElSetAttribute(cprop, s)
    /\ propHist' = [propHist EXCEPT !.ops = @ + 1, !.last = "host", !.clean = FALSE]
    /\ UNCHANGED <<propEnv, mainVars, actVars, regVars>>

\* the host script removes the individual attribute
HostRemoveAttribute ==
    /\ propHist.ops < MaxPropOps
    /\ sprop.attr.has \/ cprop.attr.has
    /\ sprop' = ElRemoveAttribute(sprop)
    /\ cprop' = ElRemoveAttribute(cprop)
    /\ propHist' = [propHist EXCEPT !.ops = @ + 1, !.last = "host", !.clean = FALSE]
    /\ UNCHANGED <<propEnv, mainVars, actVars, regVars>>

\* the host script gives the element a bulk attribute
HostSetBulk(b) ==
    /\ propHist.ops < MaxPropOps
    /\ b.has
    /\ sprop' = ElSetBulk(sprop, b)
    /\ cprop' = ElSetBulk(cprop, b)
    /\ propHist' = [propHist EXCEPT !.ops = @ + 1, !.last = "host", !.clean = FALSE]
    /\ UNCHANGED <<propEnv, mainVars, actVars, regVars>>

\* the observers' callbacks run with the pending records
PropMicrotask ==
    /\ sprop.recs # <<>> \/ cprop.recs # <<>>
    /\ sprop' = FoldSeq(LAMBDA acc, rec : ControllerObserved(acc, Props(propEnv), rec),
                        [sprop EXCEPT !.recs = <<>>], sprop.recs)
    /\ cprop' = FoldSeq(LAMBDA acc, rec : AspectObserved(acc, propEnv.def, rec),
                        [cprop EXCEPT !.recs = <<>>], cprop.recs)
    /\ propHist' = [propHist EXCEPT !.last = "microtask"]
    /\ UNCHANGED <<propEnv, mainVars, actVars, regVars>>

PropNext ==
    \/ PropConstruct
    \/ \E v \in TypedVals(propEnv.def, "user") \cup {propEnv.def, Props(propEnv)} : PropWrite(v)
    \/ \E s \in AttrTexts : HostSetAttribute(s)
    \/ HostRemoveAttribute
    \/ \E b \in Bulks(propEnv.def) : HostSetBulk(b)
    \/ PropMicrotask

PropSpec == PropSpecInit /\ [][PropNext]_vars

(***************************************************************************)
(* C16                                                                     *)
(***************************************************************************)

\* the value the precedence gives: the individual attribute as read, else the bulk
\* value, else the injected override, else the declared default
Precedence(at, env) ==
    IF at.attr.has THEN Read(env.def.t, at.attr.s)
    ELSE IF at.bulk.key # NoValue THEN at.bulk.key
    ELSE IF env.over # NoValue THEN env.over
    ELSE env.def

\* the same JavaScript value, or two objects with the same JSON text
SameValue(a, b) == a.t = b.t /\ a.v = b.v

\* C16: when the instance is initialised, whatever combination of individual
\* attribute, bulk key and injected override the element and the injector carry,
\* the property of the controller and of the aspect is the individual attribute's
\* value if present, else the bulk value, else the injected override, else the
\* default; and the observers' callbacks that follow leave that value in place.
C16_Precedence ==
    [][/\ (~sprop.created /\ sprop'.created) =>
            /\ sprop'.val = Precedence(sprop, propEnv)
            /\ cprop'.val = Precedence(cprop, propEnv)
       /\ propHist'.clean =>
            /\ SameValue(sprop'.val, Precedence(propHist'.at, propEnv))
            /\ SameValue(cprop'.val, Precedence(propHist'.at, propEnv))]_vars

\* an instance was initialised on an observed element that carried the individual
\* attribute and the bulk key, with an override injected, and the callbacks have run
C16_AllSourcesPresent ==
    /\ propHist.clean /\ propHist.last = "microtask"
    /\ propHist.at.attr.has /\ propHist.at.bulk.key # NoValue /\ propEnv.over # NoValue
    /\ sprop.created /\ cprop.created
    /\ sprop.val = Read(propEnv.def.t, propHist.at.attr.s)
    /\ sprop.val \notin {propHist.at.bulk.key, propEnv.over, propEnv.def}

(***************************************************************************)
(* C17                                                                     *)
(***************************************************************************)

\* C17 (index.js): when the last operation is a write of exactly the default of the
\* property (the injected override where there is one, else the declared default),
\* the individual attribute is absent from the controller's element.
C17_StimDefaultRemoves ==
    propHist.last = "write" /\ propHist.wrote = Props(propEnv) => ~sprop.attr.has

\* C17 (AspectAttributeSyncer.js): when the last operation is a write of exactly the
\* declared default, the individual attribute is absent from the aspect's element.
C17_ConnectorDefaultRemoves ==
    propHist.last = "write" /\ propHist.wrote = propEnv.def => ~cprop.attr.has

(***************************************************************************)
(* C18                                                                     *)
(***************************************************************************)

\* C18: when an instance is initialised on an element that carries the bulk
\* attribute, the bulk attribute is removed from the element, and the property holds
\* the value the bulk attribute gives its key (the element carrying no individual
\* attribute for it); the observers' callbacks that follow keep it so.
C18_BulkConsumed ==
    [][/\ (~sprop.created /\ sprop'.created /\ sprop.bulk.has) =>
            /\ ~sprop'.bulk.has /\ ~cprop'.bulk.has
            /\ (sprop.bulk.key # NoValue /\ ~sprop.attr.has) =>
                    (sprop'.val = sprop.bulk.key /\ cprop'.val = cprop.bulk.key)
       /\ (propHist'.clean /\ propHist'.at.bulk.has) =>
            /\ ~sprop'.bulk.has /\ ~cprop'.bulk.has
            /\ (propHist'.at.bulk.key # NoValue /\ ~propHist'.at.attr.has) =>
                    /\ SameValue(sprop'.val, propHist'.at.bulk.key)
                    /\ SameValue(cprop'.val, propHist'.at.bulk.key)]_vars

\* an instance was initialised from the bulk attribute alone, to a value that is not
\* the default, on an observed element, and the callbacks have run
C18_InitialisedFromBulk ==
    /\ propHist.clean /\ propHist.last = "microtask"
    /\ propHist.at.bulk.key # NoValue /\ ~propHist.at.attr.has
    /\ ~sprop.bulk.has /\ ~cprop.bulk.has
    /\ SameValue(sprop.val, propHist.at.bulk.key) /\ ~SameValue(sprop.val, Props(propEnv))
    /\ SameValue(cprop.val, propHist.at.bulk.key)
    /\ sprop.attr.has

(***************************************************************************)
(* The same document and host script when a token the markup or a class    *)
(* names has no class registered for it: K alone is registered (the host   *)
(* token J, and the J that K injects, refer to nothing), J alone (the host *)
(* token K and both target descriptors refer to nothing), or neither.      *)
(***************************************************************************)
RegInit ==
    /\ attached \in [Els -> BOOLEAN]
    /\ registered \in (SUBSET Tokens) \ {Tokens}
    /\ selRegistered = FALSE
    /\ StimIdle
    /\ injects = Injects
    /\ targetAttr = TargetAttr
    /\ ActionIdle
    /\ PropIdle

RegSpec == RegInit /\ [][Next]_vars

(***************************************************************************)
(* C19                                                                     *)
(***************************************************************************)

\* the controller attribute of e lists the token k
Listed(e, k) == HasCtrl(e) /\ k \in Range(ctrlAttr[e].v)

\* C19 (index.js): a token with no class registered for it is ignored: no controller
\* of it exists, no exception has been raised, once everything pending has been
\* processed every registered token listed by a host in the document has a connected
\* controller, and the by-id link of r to the unregistered K waits among the
\* orphans, member of no controller.
C19_StimIgnoresUnregistered ==
    /\ \A e \in Els, k \in Tokens \ registered : ~controllers[e][k].exists
    /\ sThrew = 0
    /\ OnlyAddRemove /\ Quiet =>
        /\ \A e \in Els, k \in registered :
                IsConnected(e) /\ Listed(e, k) => controllers[e][k].connected
        /\ "K" \notin registered /\ IsConnected("r") =>
                /\ \E t \in Range(orphans[<<"a">>]) : tobjs[t].el = "r" /\ ~tobjs[t].connected
                /\ \A e \in Els, k \in Tokens : "r" \notin SMembers(e, k)

\* C19 (Connector.js): a token with no class registered for it is ignored: no aspect
\* of it exists, no exception has been raised, once everything pending has been
\* processed every registered token listed by a host in the document has a connected
\* aspect, and the by-id link of r to the unregistered K waits among the orphans,
\* member of no aspect.
C19_ConnectorIgnoresUnregistered ==
    /\ \A a \in DOMAIN aspects : aspects[a].token \in registered
    /\ threw = 0
    /\ OnlyAddRemove /\ Quiet =>
        /\ \A e \in Els, k \in registered :
                IsConnected(e) /\ Listed(e, k) =>
                    AspectOf(e, k) # 0 /\ aspects[AspectOf(e, k)].isConnected
        /\ "K" \notin registered /\ IsConnected("r") =>
                /\ cOrphans["r"].def /\ cOrphans["r"].m # <<>>
                /\ \A a \in DOMAIN aspects : "r" \notin AMembers(a)

(***************************************************************************)
(* The same document and host script with a selector callback registered   *)
(* before connect(), for a selector that every element matches.            *)
(***************************************************************************)
SelInit ==
    /\ attached \in [Els -> BOOLEAN]
    /\ registered = Tokens
    /\ selRegistered = TRUE
    /\ StimIdle
    /\ injects = Injects
    /\ targetAttr = TargetAttr
    /\ ActionIdle
    /\ PropIdle

SelSpec == SelInit /\ [][Next]_vars

(***************************************************************************)
(* C20                                                                     *)
(***************************************************************************)

\* a step that only removes: disconnect(), or the delivery of a batch of records that
\* are all removals
RemovalOnly ==
    \/ observing /\ ~observing'
    \/ /\ mq # <<>> /\ Head(mq).k = "notify" /\ recChild # <<>>
       /\ \A n \in DOMAIN recChild : recChild[n].removed
       /\ recChild' = <<>> /\ observing'

\* the host script has only called connect(), once, and appended elements
OnlyAdd == used \subseteq {"connect", "appendChild"}

\* C20 (index.js): when the host script only connects and appends, then once
\* everything pending has been processed the selector callback has been invoked for
\* each element exactly as many times as the element was in the document at
\* connect() or was added afterwards; and a step that only removes elements invokes
\* it for none.
C20_StimOncePerElement ==
    [][/\ (OnlyAdd /\ Quiet)' => \A e \in Els : sSel'[e] = selAdds'[e]
       /\ RemovalOnly => sSel' = sSel]_vars

\* C20 (Connector.js): when the host script only connects and appends, then once
\* everything pending has been processed the selector callback has been invoked for
\* each element exactly as many times as the element was in the document at
\* connect() or was added afterwards; and a step that only removes elements invokes
\* it for none.
C20_ConnectorOncePerElement ==
    [][/\ (OnlyAdd /\ Quiet)' => \A e \in Els : cSel'[e] = selAdds'[e]
       /\ RemovalOnly => cSel' = cSel]_vars

(***************************************************************************)
(* Registration: registerController of index.js and Registry.addAspect.    *)
(* The host script registers classes under tokens, in any order and as     *)
(* often as it likes, and has instances constructed in between.            *)
(***************************************************************************)
\* the number of registrations and of instances in one behaviour
MaxRegs == 3
MaxMade == 2

\* registerController(token, controllerClass), for a token that is a string
RegisterController(k, cls) ==
    /\ sTok' = [sTok EXCEPT ![cls] = k]
    /\ sInj' = [sInj EXCEPT ![k] =
                    <<<<k>>>> \o [n \in DOMAIN ClassInjects[cls] |-> <<ClassInjects[cls][n], "/", k>>]]
    /\ sReg' = [sReg EXCEPT ![k] = cls]

\* Registry.addAspect(token, constructor, stim), for a token that is a string
AddAspect(k, cls) ==
    IF ~ShouldRegister[cls] THEN UNCHANGED <<cTok, cReg>>
    ELSE /\ cTok' = [cTok EXCEPT ![cls] = k]
         /\ cReg' = [cReg EXCEPT ![k] = cls]

\* the host script registers the class cls under the token k, with both variants
Register(k, cls) ==
    /\ regHist.n < MaxRegs
    /\ RegisterController(k, cls)
    /\ AddAspect(k, cls)
    /\ regHist' = [regHist EXCEPT !.n = @ + 1,
                       !.first[k] = IF @ = "none" /\ ShouldRegister[cls] THEN cls ELSE @]
    /\ UNCHANGED <<injects, targetAttr, mainVars, actVars, propVars>>

\* an element with the token k is connected: new #controllerRegister[token](...)
\* in #addController, new (aspectRegister.get(token))(...) in injectAspect
Instantiate(k) ==
    /\ Len(regHist.made) < MaxMade
    /\ sReg[k] # "none" /\ cReg[k] # "none"
    /\ regHist' = [regHist EXCEPT !.made = Append(@, [token |-> k, s |-> sReg[k], c |-> cReg[k]])]
    /\ UNCHANGED <<sReg, sInj, sTok, cReg, cTok, injects, targetAttr, mainVars, actVars, propVars>>

RegisterInit ==
    /\ attached = [e \in Els |-> TRUE]
    /\ registered = Tokens
    /\ selRegistered = FALSE
    /\ StimIdle
    /\ injects = Injects
    /\ targetAttr = TargetAttr
    /\ ActionIdle
    /\ PropIdle

RegisterNext ==
    \/ \E k \in Tokens, cls \in Classes : Register(k, cls)
    \/ \E k \in Tokens : Instantiate(k)

RegisterSpec == RegisterInit /\ [][RegisterNext]_vars

(***************************************************************************)
(* C21.  A second registration under a token.                              *)
(***************************************************************************)
\* C21, for registerController of index.js: a registration under a token that is
\* already registered does not replace the class bound to the token: no step
\* changes the class the register holds for a token once it holds one, so every
\* instance of the token is made from the class registered first
C21_StimKeepsFirstClass ==
    [][\A k \in Tokens : sReg[k] # "none" => sReg'[k] = sReg[k]]_vars

\* C21, for Registry.addAspect: the same
C21_RegistryKeepsFirstClass ==
    [][\A k \in Tokens : cReg[k] # "none" => cReg'[k] = cReg[k]]_vars

(***************************************************************************)
(* The host script also rewrites the controller attribute of the inner     *)
(* host i, so that a host gains and loses tokens above and below targets   *)
(* that are already there.                                                 *)
(***************************************************************************)
AttrNext ==
    \/ Next
    \/ \E v \in CtrlVals : DomSetController("i", v)

AttrSpec == Init /\ [][AttrNext]_vars

(***************************************************************************)
(* C22.  A host that gains its token after its targets.                    *)
(***************************************************************************)
\* the host script has only called connect(), once, and rewritten controller attributes
OnlyConnectSetAttribute == used \subseteq {"connect", "setAttribute"}

\* the value v of a controller attribute asks for an instance of k, directly or by injection
Asks(v, k) ==
    v.has /\ \E n \in DOMAIN v.v : \E m \in DOMAIN InjectTokens(v.v[n]) : InjectTokens(v.v[n])[m][1] = k

\* the host of the token k that el belongs to: the nearest of el and its ancestors
\* whose controller attribute asks for an instance of k
ScopeHost(el, k) == Closest(el, {e \in Els : Hosts(e, k)})

\* the step ends the processing of a batch: nothing is pending after it
ReachedQuiet == ~Quiet /\ Quiet'

\* the batch last delivered was one change of the controller attribute of el, by
\* which el gained the token K, in a document whose nodes were never moved; the
\* local target t was in the document all along and el is now the nearest host of K
\* above it
GainedK(el) ==
    /\ OnlyConnectSetAttribute
    /\ delivered = <<>> /\ Len(deliveredAttr) = 1
    /\ deliveredAttr[1].el = el
    /\ ~Asks(deliveredAttr[1].oldValue, "K") /\ Asks(deliveredAttr[1].newValue, "K")
    /\ ctrlAttr[el] = deliveredAttr[1].newValue
    /\ IsConnected("t") /\ ScopeHost("t", "K") = el

\* C22, for the controllers of index.js: when an element gained the token K through
\* a change of its controller attribute while the target t of K was already in its
\* subtree, then once the batch is processed and the element's controller of K is
\* connected, t is a member of its target set if the element is the nearest host of
\* K above t
C22_StimTargetsOfNewHost ==
    [][ReachedQuiet =>
        \A el \in Els : (GainedK(el) /\ controllers[el]["K"].connected =>
                            "t" \in SMembers(el, "K"))']_vars

\* C22, for the aspects of Connector.js: the same
C22_ConnectorTargetsOfNewHost ==
    [][ReachedQuiet =>
        \A el \in Els : (GainedK(el) /\ AspectOf(el, "K") # 0 /\ aspects[AspectOf(el, "K")].isConnected =>
                            "t" \in AMembers(AspectOf(el, "K")))']_vars

(***************************************************************************)
(* C23.  Hosts are registered before the targets of the same subtree.      *)
(***************************************************************************)
\* every target-connected callback in the log l was invoked on an instance that was
\* marked connected and whose connected() had been invoked before
AfterConnected(l) ==
    \A n \in DOMAIN l : l[n].ev = "targetConnected" =>
        l[n].conn /\ \E m \in 1..(n - 1) : l[m].ev = "connected"

\* C23, for the controllers of index.js: whatever nodes the host script adds and
\* removes, a target is only ever connected to a host that is already connected
\* (its connected() was invoked before the target-connected callback), and once
\* everything pending has been processed the local target t that is in the
\* document has resolved against its host i: it is a member of the target set
C23_StimHostsFirst ==
    /\ OnlyAddRemove => \A e \in Els, k \in Tokens : AfterConnected(log[e][k])
    /\ OnlyAddRemove /\ Quiet /\ IsConnected("t") => "t" \in SMembers("i", "K")

\* C23, for the aspects of Connector.js: the same
C23_ConnectorHostsFirst ==
    /\ OnlyAddRemove => \A a \in DOMAIN aspects : AfterConnected(aspects[a].log)
    /\ OnlyAddRemove /\ Quiet /\ IsConnected("t") =>
            AspectOf("i", "K") # 0 /\ "t" \in AMembers(AspectOf("i", "K"))


(***************************************************************************)
(* C24.  Targets of a removed subtree are torn down before their host.     *)
(***************************************************************************)
\* every target-disconnected callback for el in the log l was invoked on an
\* instance that was still marked connected, after its connected() and before the
\* disconnected() that follows it
BeforeDisconnected(l, el) ==
    \A n \in DOMAIN l : l[n].ev = "targetDisconnected" /\ l[n].el = el =>
        /\ l[n].conn
        /\ \E m \in 1..(n - 1) :
                /\ l[m].ev = "connected"
                /\ \A j \in (m + 1)..(n - 1) : l[j].ev # "disconnected"

\* C24, for the controllers of index.js: when nodes are added and removed, every
\* target-disconnected callback for the local target t runs while its controller
\* is still marked connected and before that controller's disconnected()
C24_StimTargetsBeforeHost ==
    OnlyAddRemove => \A e \in Els, k \in Tokens : BeforeDisconnected(log[e][k], "t")

\* C24, for the aspects of Connector.js: the same
C24_ConnectorTargetsBeforeHost ==
    OnlyAddRemove => \A a \in DOMAIN aspects : BeforeDisconnected(aspects[a].log, "t")


(***************************************************************************)
(* The same document and host script with two classes that inject nothing: *)
(* a change of the controller attribute from one token to the other then   *)
(* removes one token and adds the other.                                   *)
(***************************************************************************)
NoInjects == [k \in Tokens |-> <<>>]

PlainInit ==
    /\ attached \in [Els -> BOOLEAN]
    /\ registered = Tokens
    /\ selRegistered = FALSE
    /\ StimIdle
    /\ injects = NoInjects
    /\ targetAttr = TargetAttr
    /\ ActionIdle
    /\ PropIdle

PlainSpec == PlainInit /\ [][Next]_vars


(***************************************************************************)
(* C25.  A changed controller attribute: removed tokens before added ones. *)
(***************************************************************************)
\* the step delivers the pending attribute records to the observers
AttrDelivery == recAttr # <<>> /\ recAttr' = <<>> /\ observing'

\* what is pending is one change of the controller attribute of el, from one
\* value to another
OneChange(el) ==
    /\ Len(recAttr) = 1 /\ recChild = <<>>
    /\ recAttr[1].el = el /\ recAttr[1].oldValue.has /\ ctrlAttr[el].has

\* the tokens the change takes from el, and the tokens it gives to el
RemovedTokens(el) == {k \in Tokens : Asks(recAttr[1].oldValue, k) /\ ~Asks(ctrlAttr[el], k)}
AddedTokens(el) == {k \in Tokens : ~Asks(recAttr[1].oldValue, k) /\ Asks(ctrlAttr[el], k)}

\* C25, for the controllers of index.js: when the observer processes one change of
\* the controller attribute of an element, no callback of a controller of an added
\* token is invoked while the controller of a removed token is still connected
C25_StimRemovedBeforeAdded ==
    [][\A el \in Els : AttrDelivery /\ OneChange(el) =>
        \A k2 \in AddedTokens(el) :
            \A n \in (Len(log[el][k2]) + 1)..Len(log'[el][k2]) :
                log'[el][k2][n].peers \cap RemovedTokens(el) = {}]_vars

\* C25, for the aspects of Connector.js: the same
C25_ConnectorRemovedBeforeAdded ==
    [][\A el \in Els : AttrDelivery /\ OneChange(el) =>
        \A a \in DOMAIN aspects' :
            aspects'[a].el = el /\ aspects'[a].token \in AddedTokens(el) =>
                \A n \in ((IF a \in DOMAIN aspects THEN Len(aspects[a].log) ELSE 0) + 1)
                            ..Len(aspects'[a].log) :
                    aspects'[a].log[n].peers \cap RemovedTokens(el) = {}]_vars


(***************************************************************************)
(* C26.  A token removed from the controller attribute of a host.          *)
(***************************************************************************)
\* every pending attribute record is a change from one value to another
ValuesChanged ==
    \A n \in DOMAIN recAttr : recAttr[n].oldValue.has /\ ctrlAttr[recAttr[n].el].has

\* C26, for the aspects of Connector.js: processing changes of the connect attribute
\* raises no error, also when a token that went is not hosted by the element; and
\* when one change took the token k from el, the aspect that el hosted for k has had
\* disconnected() invoked once more, is marked not connected, has left the set of
\* connected aspects and the host map of el, and the scope attribute of el does
\* not name k
C26_ConnectorTokenRemoved ==
    [][AttrDelivery /\ ValuesChanged /\ threw = 0 =>
        /\ threw' = threw
        /\ \A el \in Els : OneChange(el) => \A k \in RemovedTokens(el) :
            LET a == AspectOf(el, k)
            IN a # 0 /\ aspects[a].isConnected =>
                /\ Count(aspects'[a].log, "disconnected") = Count(aspects[a].log, "disconnected") + 1
                /\ ~aspects'[a].isConnected
                /\ a \notin connectedAspects'
                /\ (AspectOf(el, k) = 0)'
                /\ k \notin Range(scopeAttr'[el].v)]_vars

\* C26, for the controllers of index.js (which keeps no set of connected instances
\* and no scope attribute): no error is raised; and when one change took the token k
\* from el, the controller of k has had disconnected() invoked once more, is marked
\* not connected, and el has no entry for k any more
C26_StimTokenRemoved ==
    [][AttrDelivery /\ ValuesChanged /\ sThrew = 0 =>
        /\ sThrew' = sThrew
        /\ \A el \in Els : OneChange(el) => \A k \in RemovedTokens(el) :
            controllers[el][k].connected =>
                /\ Count(log'[el][k], "disconnected") = Count(log[el][k], "disconnected") + 1
                /\ ~controllers'[el][k].connected
                /\ ~controllers'[el][k].exists]_vars


(***************************************************************************)
(* C27.  The records of a batch in delivery order: a moved node.           *)
(***************************************************************************)
\* the step delivers the pending childList records to the observers
ChildDelivery == recChild # <<>> /\ recChild' = <<>> /\ delivered' = recChild /\ observing

\* what is pending is the move of the node n within the document: n removed, then
\* n added
MovedNode(n) ==
    /\ OnlyAddRemove /\ recAttr = <<>>
    /\ recChild = <<[removed |-> TRUE, node |-> n], [removed |-> FALSE, node |-> n]>>
    /\ IsConnected(n)

\* what is pending is n added, then n removed
AddedRemoved(n) ==
    /\ OnlyAddRemove /\ recAttr = <<>>
    /\ recChild = <<[removed |-> FALSE, node |-> n], [removed |-> TRUE, node |-> n]>>

NoStaleLink(l) == \A n \in DOMAIN l : l[n].ev = "targetConnected" => l[n].held = {}


Bound == actEnv.attached /\ actq = <<>> /\ ~OptionValue(actEnv.words, "once")

\* C29, for the actions of index.js: however often the element was processed, it has
\* at most one listener for the descriptor, exactly one while it is bound, and one
\* native event invokes the method at most once
C29_StimOneListener ==
    [][/\ Cardinality(Listening(aobjs')) <= 1
       /\ (Bound => Cardinality(Listening(aobjs)) = 1)'
       /\ actHist'.sFired <= actHist.sFired + 1]_vars

\* C29, for the handlers of Connector.js (one handler per token in
\* el.stim_tm_handler, whose one listener is added by connect()): the same
C29_ConnectorOneListener ==
    [][/\ (Bound => handlers.has /\ handlers.listening)'
       /\ actHist'.cFired <= actHist.cFired + 1]_vars


(***************************************************************************)
(* C30.  The tokens a token injects are instantiated first.                *)
(***************************************************************************)
\* C30, for the controllers of index.js: a host that has an instance of a token has
\* an instance of every token it injects, and that one was constructed earlier (the
\* instances are numbered as they are constructed)
C30_StimInjectedFirst ==
    \A el \in Els, k \in Tokens : controllers[el][k].exists =>
        \A n \in DOMAIN injects[k] :
            /\ controllers[el][injects[k][n]].exists
            /\ controllers[el][injects[k][n]].id < controllers[el][k].id

\* C30, for the aspects of Connector.js: an aspect of a token was constructed after
\* an aspect of the same host for every token it injects, and a host never has two
\* aspects of one token
C30_ConnectorInjectedFirst ==
    /\ \A a \in DOMAIN aspects : \A n \in DOMAIN injects[aspects[a].token] :
            \E b \in 1..(a - 1) : /\ aspects[b].el = aspects[a].el
                                  /\ aspects[b].token = injects[aspects[a].token][n]
    /\ \A el \in Els, k \in Tokens :
            Cardinality({n \in DOMAIN hostMap[el].m : aspects[hostMap[el].m[n]].token = k}) <= 1


(***************************************************************************)
(* C31.  A property update that comes from an attribute mutation.          *)
(***************************************************************************)
\* the step runs the observers' callbacks with the pending attribute records
PropCallbacks == (sprop.recs # <<>> \/ cprop.recs # <<>>) /\ propHist'.last = "microtask"

\* C31, for PropSyncer of index.js: the callbacks for attribute mutations of the
\* element of an instance update the property without writing or removing any
\* attribute, and so leave no mutation record behind: the propagation has reached
\* its fixed point after the one step
C31_StimNoWriteBack ==
    [][PropCallbacks /\ sprop.created =>
        sprop'.attr = sprop.attr /\ sprop'.bulk = sprop.bulk /\ sprop'.recs = <<>>]_vars

\* C31, for AspectAttributeSyncer: the same
C31_ConnectorNoWriteBack ==
    [][PropCallbacks /\ cprop.created =>
        cprop'.attr = cprop.attr /\ cprop'.bulk = cprop.bulk /\ cprop'.recs = <<>>]_vars


RemoteTargets == [e \in Nodes |-> IF e \in {"t", "r"} THEN Attr(<<RemoteDesc>>) ELSE NoAttr]

RemoteInit ==
    /\ attached \in [Els -> BOOLEAN]
    /\ registered = Tokens
    /\ selRegistered = FALSE
    /\ StimIdle
    /\ injects = Injects
    /\ targetAttr = RemoteTargets
    /\ ActionIdle
    /\ PropIdle

RemoteSpec == RemoteInit /\ [][Next]_vars


(***************************************************************************)
(* C33.  A target that names its host by id never falls back to an         *)
(* ancestor host.                                                          *)
(***************************************************************************)
\* the target attribute of e names the host by the id a
NamesId(e) == targetAttr[e] = Attr(<<RemoteDesc>>)

\* the element with the id a is in the document
IdPresent == GetElementById(<<"a">>) # "null"

\* e waits in the orphan index of index.js, of Connector.js, for the id a
StimOrphaned(e) == \E n \in DOMAIN tobjs : tobjs[n].el = e /\ n \in Range(orphans[<<"a">>])
ConnectorOrphaned(e) == cOrphans[e].def /\ "a" \in Range(cOrphans[e].m)

TargetVals == {Attr(<<RemoteDesc>>), Attr(<<RemoteDesc, OtherDesc>>), Attr(<<OtherDesc>>)}

\* e.setAttribute(target attribute, v)
DomSetTarget(e, v) ==
    /\ ~running /\ ops < MaxOps
    /\ targetAttr' = [targetAttr EXCEPT ![e] = v]
    /\ Did("setTarget")
    /\ IF Observed(e)
       THEN /\ recAttr' = Append(recAttr, [el |-> e, name |-> "target",
                                           oldValue |-> ctrlAttr[e], oldTarget |-> targetAttr[e]])
            /\ mq' = WithNotify(mq)
       ELSE UNCHANGED <<recAttr, mq>>
    /\ UNCHANGED <<attached, ctrlAttr, observing, transient, recChild, running, moved, registered, selRegistered, selAdds>>
    /\ UNCHANGED <<stimVars, connVars, actVars, propVars>>
    /\ UNCHANGED <<sReg, sInj, sTok, cReg, cTok, regHist, injects>>

OrphanNext ==
    \/ Next
    \/ \E v \in TargetVals : DomSetTarget("r", v)

OrphanSpec == Init /\ [][OrphanNext]_vars


(***************************************************************************)
(* C34.  The two orphan indices of Connector.js agree.                     *)
(***************************************************************************)
\* orphanHosts has, under the host id h, an entry for e with a descriptor in it
Awaited(h, e) ==
    /\ orphanHosts[h].def
    /\ \E n \in DOMAIN orphanHosts[h].m :
            orphanHosts[h].m[n].el = e /\ orphanHosts[h].m[n].tokens # <<>>

\* C34: in every state the host id h is in orphans.get(el) exactly when
\* orphanHosts.get(h) has an entry for el with a descriptor in it, and neither
\* index keeps an empty set or an empty map
C34_OrphanIndicesAgree ==
    /\ \A e \in Els, h \in HostIdTexts :
            (cOrphans[e].def /\ h \in Range(cOrphans[e].m)) <=> Awaited(h, e)
    /\ \A e \in Els : cOrphans[e].def => cOrphans[e].m # <<>>
    /\ \A h \in HostIdTexts : orphanHosts[h].def =>
            /\ orphanHosts[h].m # <<>>
            /\ \A n \in DOMAIN orphanHosts[h].m : orphanHosts[h].m[n].tokens # <<>>


(***************************************************************************)
(* C35.  An orphan that is removed from the document leaves the orphan     *)
(* index.                                                                  *)
(***************************************************************************)
\* the step delivers a batch of removals only, and disconnect() was never called
RemovalDelivery ==
    /\ mq # <<>> /\ Head(mq).k = "notify" /\ recChild # <<>> /\ recAttr = <<>>
    /\ \A n \in DOMAIN recChild : recChild[n].removed
    /\ "disconnect" \notin used
    /\ recChild' = <<>> /\ observing'

\* no pending childList record is about e or about a node e is in the subtree of
NoPending(e) == \A n \in DOMAIN recChild : recChild[n].node \notin Range(Ancestors(e))

\* the step puts e into a target set of a controller (index.js), of an aspect
\* (Connector.js), it was not in before
StimBegins(e) == \E h \in Els : e \notin SMembers(h, "K") /\ e \in SMembers(h, "K")'
ConnectorBegins(e) ==
    \E a \in DOMAIN aspects' : e \in AMembers(a)' /\ (a \in DOMAIN aspects => e \notin AMembers(a))

\* C35, for the targets of index.js: the step that processes the removal of a
\* subtree leaves no element of that subtree in the orphan index; and an element
\* that waits in the orphan index enters a target set only while it is in the
\* document or a record about it is still pending
C35_StimOrphanForgotten ==
    [][\A e \in Els :
        /\ RemovalDelivery /\ ~IsConnected(e) /\ ~NoPending(e) => ~StimOrphaned(e)'
        /\ StimOrphaned(e) /\ StimBegins(e) /\ NoPending(e) => IsConnected(e)']_vars

\* C35, for the connections of Connector.js: the same, for both orphan indices
C35_ConnectorOrphanForgotten ==
    [][\A e \in Els :
        /\ RemovalDelivery /\ ~IsConnected(e) /\ ~NoPending(e) =>
                ~ConnectorOrphaned(e)' /\ ~Awaited("a", e)'
        /\ (ConnectorOrphaned(e) \/ Awaited("a", e)) /\ ConnectorBegins(e) /\ NoPending(e) =>
                IsConnected(e)']_vars


(***************************************************************************)
(* C36.  The deferred connect of an instance of index.js.                  *)
(***************************************************************************)
\* the step runs the first microtask of the queue, and it is of the kind k
Ran(k) == mq # <<>> /\ Head(mq).k = k /\ ops' = ops

\* the microtask that runs belongs to a controller and its callback is invoked
ControllerCallbackRuns ==
    /\ Ran("connCtl")
    /\ log'[Head(mq).el][Head(mq).token] # log[Head(mq).el][Head(mq).token]

\* the microtask that runs belongs to a target and its callback is invoked: the
\* target is connected or put into the orphan index
TargetCallbackRuns ==
    /\ Ran("connTgt")
    /\ tobjs'[Head(mq).t] # tobjs[Head(mq).t] \/ orphans' # orphans \/ log' # log

\* the callback of a deferred connect is invoked only for an instance that is
\* marked connecting (no #disconnectInstance since the last #connectInstance)
\* and is not marked connected (at most once per connected period)
CallbackOnlyWhenPending ==
    /\ ControllerCallbackRuns =>
            /\ controllers[Head(mq).el][Head(mq).token].connecting
            /\ ~controllers[Head(mq).el][Head(mq).token].connected
    /\ TargetCallbackRuns =>
            tobjs[Head(mq).t].connecting /\ ~tobjs[Head(mq).t].connected

\* when the microtask of an instance has run, the instance is not marked
\* connecting and connected at once
FlagsExclusiveAfterMicrotask ==
    /\ Ran("connCtl") =>
            ~(/\ controllers'[Head(mq).el][Head(mq).token].connecting
              /\ controllers'[Head(mq).el][Head(mq).token].connected)
    /\ Ran("connTgt") =>
            ~(tobjs'[Head(mq).t].connecting /\ tobjs'[Head(mq).t].connected)

\* C36: for the controllers and the targets of index.js, whatever the order of
\* #connectInstance, #disconnectInstance and the microtasks: the deferred callback
\* is invoked only for an instance marked connecting and not connected, and after
\* the microtask of an instance the instance is never marked both connecting and
\* connected
C36_StimDeferredConnect ==
    [][CallbackOnlyWhenPending /\ FlagsExclusiveAfterMicrotask]_vars


(***************************************************************************)
(* The same document with two links on the target t: the descriptor K.item *)
(* links it to the nearest host of K above it, K.item#a to the host with   *)
(* the id a; the host script rewrites the controller attribute of o and    *)
(* of i.                                                                   *)
(***************************************************************************)
LinkTargets ==
    [e \in Nodes |-> CASE e = "t" -> Attr(<<LocalDesc, RemoteDesc>>)
                       [] e = "r" -> Attr(<<RemoteDesc>>)
                       [] OTHER -> NoAttr]

LinkInit ==
    /\ attached \in [Els -> BOOLEAN]
    /\ registered = Tokens
    /\ selRegistered = FALSE
    /\ StimIdle
    /\ injects = Injects
    /\ targetAttr = LinkTargets
    /\ ActionIdle
    /\ PropIdle

LinkSpec == LinkInit /\ [][AttrNext]_vars


(***************************************************************************)
(* C37.  Disconnecting one controller leaves the others alone.             *)
(***************************************************************************)
\* the step delivers one change of the controller attribute of el that takes the
\* token K from it, and el has an aspect for K
KRemoved(el) ==
    AttrDelivery /\ OneChange(el) /\ RemovedTokens(el) = {"K"} /\ AspectOf(el, "K") # 0

\* the connections of e to other aspects than a
OtherLinks(e, a) == {x \in Range(childMap[e].m) : x.aspect # a}

CircularInjects == [k \in Tokens |-> IF k = "K" THEN <<"J">> ELSE <<"K">>]

CircularInit ==
    /\ attached \in [Els -> BOOLEAN]
    /\ registered = Tokens
    /\ selRegistered = FALSE
    /\ StimIdle
    /\ injects = CircularInjects
    /\ targetAttr = TargetAttr
    /\ ActionIdle
    /\ PropIdle

CircularSpec == CircularInit /\ [][Next]_vars


\* the aspects constructed on element e for token k
AspectsOf(e, k) == {a \in DOMAIN aspects : aspects[a].el = e /\ aspects[a].token = k}

\* C38 (Connector.js): host add terminates under a circular injection relation:
\* the first connect() throws nothing and leaves exactly one aspect for every
\* token that an attached host element hosts
C38_ConnectorHostAddTerminates ==
    [][FirstConnect =>
          /\ threw' = threw
          /\ \A e \in Els, k \in Tokens :
                IsConnected(e) /\ Hosts(e, k) => Cardinality(AspectsOf(e, k)') = 1]_vars

\* C38 (index.js): host add terminates under a circular injection relation:
\* the first connect() throws nothing and every token that an attached host
\* element hosts has one instance, initialized once
C38_StimHostAddTerminates ==
    [][FirstConnect =>
          /\ sThrew' = sThrew
          /\ \A e \in Els, k \in Tokens :
                IsConnected(e) /\ Hosts(e, k) =>
                    /\ controllers'[e][k].exists
                    /\ Count(log'[e][k], "initialized") = 1]_vars


\* C39: in every reachable state the connectedAspects set is exactly the set
\* of the aspects whose isConnected flag is true
C39_ConnectedAspectsAreFlagged ==
    connectedAspects = {a \in DOMAIN aspects : aspects[a].isConnected}

\* one aspect is connected while another one has been disconnected
C39_OneConnectedOneDisconnected ==
    /\ \E a \in connectedAspects : aspects[a].isConnected
    /\ \E b \in DOMAIN aspects :
          /\ ~aspects[b].isConnected
          /\ Count(aspects[b].log, "disconnected") > 0


\* connect() is called a second time on a document whose additions have all
\* been processed and from which nothing has been removed
SecondPass == Quiet /\ OnlyAdd /\ "connectAgain" \in used'

\* C40 (index.js): a second pass over a subtree that has been processed as added
\* changes nothing: the second connect() constructs no instance and no
\* ControllerTarget, invokes no callback and leaves the target sets and the
\* indices as they are, and while nodes have only been added (a batch may name
\* a node and, in a later record, a node inside it) no instance sees connected()
\* twice or a second target callback for the same element
C40_StimSecondPassIdle ==
    [][/\ SecondPass =>
            /\ nextId' = nextId /\ tobjs' = tobjs
            /\ targets' = targets /\ orphans' = orphans
            /\ \A e \in Els, k \in Tokens :
                /\ log'[e][k] = log[e][k]
                /\ controllers'[e][k] = controllers[e][k]
       /\ (OnlyAdd =>
            \A e \in Els, k \in Tokens, el \in Els :
                /\ Len(TargetEvents(log[e][k], el)) <= 1
                /\ Count(log[e][k], "connected") <= 1)']_vars

\* C40 (Connector.js): a second pass over a subtree that has been processed as
\* added changes nothing: the second connect() constructs no aspect, invokes
\* neither connected() nor a target-connected callback and leaves the target
\* sets as they are, and while nodes have only been added no aspect sees
\* connected() twice or a second target callback for the same element
C40_ConnectorSecondPassIdle ==
    [][/\ SecondPass =>
            /\ DOMAIN aspects' = DOMAIN aspects
            /\ \A a \in DOMAIN aspects :
                /\ Count(aspects'[a].log, "connected") = Count(aspects[a].log, "connected")
                /\ Count(aspects'[a].log, "targetConnected") = Count(aspects[a].log, "targetConnected")
                /\ AMembers(a)' = AMembers(a)
       /\ (OnlyAdd =>
            \A a \in DOMAIN aspects, el \in Els :
                /\ Len(TargetEvents(aspects[a].log, el)) <= 1
                /\ Count(aspects[a].log, "connected") <= 1)']_vars

====
